---- MODULE Spec2Model ----
(***************************************************************************)
(* A model of the EEG band-power / envelope engine of EEG-muse:            *)
(*   - the stateful IIR Filter (quadrants.py, muse_envelope.py),           *)
(*   - SignalProcessor.process_and_store and its display ring buffers,     *)
(*   - the Quadrants and LiveMuseGraph views (stream / static file),       *)
(*   - the sliding-window trend builder and the spectral estimator.        *)
(*                                                                         *)
(* Sample values are exact rationals <<numerator, denominator>>; the       *)
(* floating-point recurrences of scipy are computed exactly.  The          *)
(* Butterworth coefficient tables that scipy.signal.butter would return    *)
(* are replaced by small rational tables of the same shape (unit DC gain   *)
(* for a lowpass, zero DC gain for a bandpass, poles inside the unit       *)
(* circle).  log1p is replaced by the piecewise-linear interpolation of    *)
(* log2(1 + x) at x = 2^k - 1, which like log1p is 0 at 0, increasing and  *)
(* concave on x >= 0; all values of the model are dyadic rationals.        *)
(***************************************************************************)
EXTENDS Integers, Sequences, FiniteSets, TLC

VARIABLES
    flt,        \* SpecFilter: the streamed Filter instance [kind, zi]
    fltOut,     \* SpecFilter: concatenation of what process() returned so far
    fltSeen,    \* SpecFilter: concatenation of the chunks fed so far
    fltCalls,   \* SpecFilter: number of process() calls made
    proc,       \* SpecProc: one SignalProcessor [bp, lp, buffers]
    procPrev,   \* SpecProc: the processor as it was before the last call
    procErr,    \* SpecProc: the last process_and_store call raised
    procFailed, \* SpecProc: some process_and_store call has raised
    procSeen,   \* SpecProc: all samples fed to process_and_store so far
    procEnv,    \* SpecProc: per band, all envelope values computed so far
    qProcessors,\* SpecQuad: Quadrants.processors, one SignalProcessor per plot
    qCurves,    \* SpecQuad: Quadrants.curves, the y data last given to setData
    qTimer,     \* SpecQuad: Quadrants.timer: "none", "running" or "stopped"
    qInlet,     \* SpecQuad: Quadrants.inlet: 0 (not set) or the number of the connection
    qChannels,  \* SpecQuad: channel count of the connected stream
    qSince,     \* SpecQuad: the frames processed since the last load_stream
    qPulled,    \* SpecQuad: the frames of all chunks pulled, in the order pulled
    estCall,    \* SpecEst: the arguments of the last calculate_band_powers call
    estResult,  \* SpecEst: what that call did: [raised, powers]
    tFile,      \* SpecTrend: n_samples of the file last loaded, -1 before any
    tTimestamps,\* SpecTrend: timestamps of load_static_file
    tWindows,   \* SpecTrend: the slices <<start, end>> given to the estimator
    tRaw,       \* SpecTrend: per band, raw_curve given to curves_raw
    tTrend,     \* SpecTrend: per band, trend_curve given to curves_trend
    lTimer,     \* SpecLive: LiveMuseGraph.timer: "none" or "running"
    lMarkers,   \* SpecLive: LiveMuseGraph.inlet_markers is set
    lRaw,       \* SpecLive: LiveMuseGraph.raw_buffer, rows of four sensors
    lData,      \* SpecLive: LiveMuseGraph.data_buffers, one series per band
    lTrend,     \* SpecLive: y data of curves_trend, one series per band
    lLines,     \* SpecLive: number of marker lines added to the plot
    lChunk,     \* SpecLive: the chunk pulled by the last update()
    lRaised,    \* SpecLive: the last update() raised
    lTicks,     \* SpecLive: number of update() calls made
    lWindow,    \* SpecLive: the rows the last update() gave to the estimator
    stA,        \* SpecStat: data_a of the last compare_bands call
    stB,        \* SpecStat: data_b of the last compare_bands call
    stResult,   \* SpecStat: what that call returned, <<>> before any call
    roOthers,   \* SpecStat: the series an outlier was injected into
    roIndex,    \* SpecStat: the position of the injected outlier, 0 before any
    roClean,    \* SpecStat: what remove_outliers returned for that series
    vKind,      \* SpecEnv: the visualizer: "quadrants", "muse_envelope" or "muse_lazy_log"
    vChannels,  \* SpecEnv: channel count of the stream the visualizer reads
    vProc,      \* SpecEnv: its per-band filters and display buffers [bp, lp, buffers]
    vSeen,      \* SpecEnv: the global signal processed so far
    rRunning,   \* SpecRec: MuseRecorder.running
    rThread,    \* SpecRec: MuseRecorder.thread: 0 (None) or the number of the last thread started
    rThreads,   \* SpecRec: per record thread, its position in _record_loop and its locals
    rCtl,       \* SpecRec: the controlling thread: "idle", or "joining" inside stop()
    rLast,      \* SpecRec: the last call of the controlling thread that returned
    rFile,      \* SpecRec: the destination file: [exists, lines]
    rFile0,     \* SpecRec: the destination file as the recorder found it
    rPulled,    \* SpecRec: all rows the record loops built from pulled chunks, in order
    rCalls,     \* SpecRec: number of start() and stop() calls made
    tView,      \* SpecTick: the component whose update loop is followed
    tInput,     \* SpecTick: what the last tick pulled: the chunk as the stream delivered it, and what welch finds
    tBefore,    \* SpecTick: the component's buffers before the last tick
    tAfter,     \* SpecTick: the component's buffers now
    tTicks,     \* SpecTick: number of ticks so far
    dMode,      \* SpecDash: MuseMasterLauncher.mode
    dFile,      \* SpecDash: playback_file: 0 (None) or the number of a recording
    dRecorder,  \* SpecDash: self.recorder: 0 (None) or the number of the recording it writes
    dChecked,   \* SpecDash: btn_record.isChecked()
    dEnabled,   \* SpecDash: btn_record.isEnabled()
    dText,      \* SpecDash: the text of btn_record
    dLive,      \* SpecDash: btn_live is shown
    dLoaded,    \* SpecDash: self.loaded
    dTimer,     \* SpecDash: check_stream_timer is active
    dStarted,   \* SpecDash: number of recorders created so far
    cDataA,     \* SpecCmp: CompareWindow.current_data_a: <<>> (None) or the series per band
    cDataB,     \* SpecCmp: CompareWindow.current_data_b
    cOutcome,   \* SpecCmp: how the last run_comparison ended
    cCall,      \* SpecCmp: the files and channel boxes of the last run_comparison
    cStats      \* SpecCmp: the two series update_stats_view last handed to the analyzer

vars == <<flt, fltOut, fltSeen, fltCalls,
          proc, procPrev, procErr, procFailed, procSeen, procEnv,
          qProcessors, qCurves, qTimer, qInlet, qChannels, qSince, qPulled,
          estCall, estResult, tFile, tTimestamps, tWindows, tRaw, tTrend,
          lTimer, lMarkers, lRaw, lData, lTrend, lLines, lChunk, lRaised, lTicks, lWindow,
          stA, stB, stResult, roOthers, roIndex, roClean,
          vKind, vChannels, vProc, vSeen,
          rRunning, rThread, rThreads, rCtl, rLast, rFile, rFile0, rPulled, rCalls,
          tView, tInput, tBefore, tAfter, tTicks,
          dMode, dFile, dRecorder, dChecked, dEnabled, dText, dLive, dLoaded, dTimer, dStarted,
          cDataA, cDataB, cOutcome, cCall, cStats>>

(***************************************************************************)
(* Bounds of the model.                                                    *)
(***************************************************************************)
MaxSample == 2      \* raw samples are the integers -1 .. MaxSample
NumBands == 2       \* number of rows of BANDS
BUFFER_SIZE == 2    \* capacity C of a display buffer (SF * WINDOW_SECONDS in the code)
MaxTotal == BUFFER_SIZE + 1  \* total number of samples fed to one filter / processor
MaxViewFrames == 2  \* number of frames a view pulls from one connection
MaxPulled == MaxViewFrames + 1  \* total number of frames a view pulls
MaxFrameValue == 1  \* the frames of a stream are built around the values 0 .. MaxFrameValue
MaxConnections == 2 \* number of times a view connects to a stream
MaxDim == 5         \* small window dimensions given to the estimator: 0 .. MaxDim
MaxFileSamples == 1100  \* recorded files have 0 .. MaxFileSamples rows
DataBufferSize == 31 \* length of a data buffer (WINDOW_SECONDS * UPDATE_FPS in the code)
MaxLiveTicks == 2   \* number of update() calls of the live graph
MaxStatValue == 1   \* compared series hold the integers -1 .. MaxStatValue
MaxStatLen == 3     \* compared series have 0 .. MaxStatLen values
MaxOthers == 12     \* an outlier is injected into series of 2 .. MaxOthers values
MaxEnvFrames == 6   \* total number of frames an envelope visualizer pulls

(***************************************************************************)
(* Exact rational arithmetic.                                              *)
(***************************************************************************)
Abs(n) == IF n < 0 THEN -n ELSE n

RECURSIVE Gcd(_, _)
Gcd(a, b) == IF b = 0 THEN a ELSE Gcd(b, a % b)

Norm(n, d) ==
    LET s == IF d < 0 THEN -1 ELSE 1
        g == Gcd(Abs(n), Abs(d))
    IN  IF n = 0 THEN <<0, 1>> ELSE <<(s * n) \div g, (s * d) \div g>>

R(n) == <<n, 1>>
Zero == <<0, 1>>
One == <<1, 1>>
RAdd(x, y) ==
    LET g == Gcd(x[2], y[2])
    IN  Norm(x[1] * (y[2] \div g) + y[1] * (x[2] \div g), (x[2] \div g) * y[2])
RNeg(x) == <<-x[1], x[2]>>
RSub(x, y) == RAdd(x, RNeg(y))
RMul(x, y) ==
    LET a == Norm(x[1], y[2])
        b == Norm(y[1], x[2])
    IN  <<a[1] * b[1], a[2] * b[2]>>
RDiv(x, y) == RMul(x, Norm(y[2], y[1]))
RAbs(x) == <<Abs(x[1]), x[2]>>
RLess(x, y) == x[1] * y[2] < y[1] * x[2]

\* the sum of s[lo .. hi], by halves
RECURSIVE RSumRange(_, _, _)
RSumRange(s, lo, hi) ==
    IF lo > hi THEN Zero
    ELSE IF lo = hi THEN s[lo]
    ELSE RAdd(RSumRange(s, lo, (lo + hi) \div 2),
              RSumRange(s, ((lo + hi) \div 2) + 1, hi))

RSum(s) == RSumRange(s, 1, Len(s))

\* abs() of numpy applied elementwise
NpAbs(s) == [i \in 1..Len(s) |-> RAbs(s[i])]

\* numpy.log1p of one value: the interpolation of log2(1 + x) that is exact
\* at x = 2^k - 1 and linear in between (x on [0, 1], 1 + (x-1)/2 on [1, 3],
\* 2 + (x-3)/4 on [3, 7], ...); below 0 the first piece is continued
RECURSIVE Log1pPiece(_, _, _)
Log1pPiece(x, k, pow) ==
    IF RLess(x, R(2 * pow - 1))
    THEN RAdd(R(k), RDiv(RSub(x, R(pow - 1)), R(pow)))
    ELSE Log1pPiece(x, k + 1, 2 * pow)

Log1pScalar(x) == Log1pPiece(x, 0, 1)

\* numpy.log1p applied elementwise
NpLog1p(s) == [i \in 1..Len(s) |-> Log1pScalar(s[i])]

(***************************************************************************)
(* Filter designs.  A design is a sequence of sections                     *)
(* [b |-> <<b0,..,bK>>, a |-> <<a1,..,aK>>] (a0 = 1).  An `sos` array is a *)
(* sequence of sections of order K = 2; a transfer function (b, a) is one  *)
(* section of order K.                                                     *)
(***************************************************************************)
Sec(b, a) == [b |-> b, a |-> a]

\* create_lowpass: butter(1, cutoff, 'low', output='sos'): one first-order
\* section, padded to second order as in an sos row
create_lowpass == << Sec(<< <<1,4>>, <<1,4>>, Zero >>, << <<-1,2>>, Zero >>) >>

\* create_bandpass: butter(3, [low, high], 'band', output='sos'): a cascade of
\* sections whose product has zero gain at DC.  Band 1 is a single resonant
\* section, every other band a cascade of a highpass and a lowpass section.
create_bandpass(band) ==
    IF band = 1
    THEN << Sec(<< <<1,4>>, Zero, <<-1,4>> >>, << Zero, <<1,2>> >>) >>
    ELSE << Sec(<< <<1,2>>, <<-1,2>>, Zero >>, << Zero, Zero >>),
            Sec(<< <<1,2>>, <<1,2>>, Zero >>, << <<-1,2>>, Zero >>) >>

\* muse_envelope.create_lowpass_filter: butter(3, cutoff, 'low') as (b, a):
\* one third-order section, poles 1/2 and (1 +- i)/2, unit gain at DC
create_lowpass_filter ==
    << Sec(<< <<1,32>>, <<3,32>>, <<3,32>>, <<1,32>> >>,
           << <<-3,2>>, One, <<-1,4>> >>) >>

\* muse_envelope.create_bandpass_filter: butter(3, [low, high], 'band') as (b, a)
create_bandpass_filter ==
    << Sec(<< <<1,4>>, Zero, <<-1,4>> >>, << Zero, <<1,2>> >>) >>

(***************************************************************************)
(* scipy.signal.lfilter_zi / sosfilt_zi: the state of the step-response    *)
(* steady state.                                                           *)
(***************************************************************************)
SecGain(sec) ==
    RDiv(RSum(sec.b), RAdd(One, RSum(sec.a)))

\* lfilter_zi of one section of order K:
\*   zi[K] = b[K] - a[K]*G,  zi[i] = b[i] - a[i]*G + zi[i+1]   (b counted from b0)
RECURSIVE LfilterZiFrom(_, _)
LfilterZiFrom(sec, i) ==
    LET K == Len(sec.a)
        G == SecGain(sec)
        own == RSub(sec.b[i + 1], RMul(sec.a[i], G))
    IN  IF i > K THEN <<>>
        ELSE IF i = K THEN <<own>>
        ELSE LET rest == LfilterZiFrom(sec, i + 1)
             IN  <<RAdd(own, rest[1])>> \o rest

lfilter_zi(sec) == LfilterZiFrom(sec, 1)

RECURSIVE SosfiltZiFrom(_, _, _)
SosfiltZiFrom(sos, s, scale) ==
    IF s > Len(sos) THEN <<>>
    ELSE LET z == lfilter_zi(sos[s])
         IN  << [i \in 1..Len(z) |-> RMul(scale, z[i])] >>
             \o SosfiltZiFrom(sos, s + 1, RMul(scale, SecGain(sos[s])))

sosfilt_zi(sos) == SosfiltZiFrom(sos, 1, One)

\* the state sosfilt starts from when no zi is passed
ZeroZi(sos) == [s \in 1..Len(sos) |-> [i \in 1..Len(sos[s].a) |-> Zero]]

(***************************************************************************)
(* scipy.signal.sosfilt(sos, x, zi) / lfilter(b, a, x, zi): direct form II *)
(* transposed, section by section for every sample.  Returns [y, zi].      *)
(***************************************************************************)
RECURSIVE SosSample(_, _, _, _)
\* one sample x through sections s..Len(sos); returns [y, zi]
SosSample(sos, zi, s, x) ==
    IF s > Len(sos) THEN [y |-> x, zi |-> zi]
    ELSE LET sec == sos[s]
             K == Len(sec.a)
             xn == RAdd(RMul(sec.b[1], x), zi[s][1])
             z == [i \in 1..K |->
                     RAdd(RSub(RMul(sec.b[i + 1], x), RMul(sec.a[i], xn)),
                          IF i < K THEN zi[s][i + 1] ELSE Zero)]
         IN  SosSample(sos, [zi EXCEPT ![s] = z], s + 1, xn)

RECURSIVE SosfiltFrom(_, _, _, _)
SosfiltFrom(sos, zi, x, n) ==
    IF n > Len(x) THEN [y |-> <<>>, zi |-> zi]
    ELSE LET one == SosSample(sos, zi, 1, x[n])
             rest == SosfiltFrom(sos, one.zi, x, n + 1)
         IN  [y |-> <<one.y>> \o rest.y, zi |-> rest.zi]

sosfilt(sos, x, zi) == SosfiltFrom(sos, zi, x, 1)

(***************************************************************************)
(* class Filter                                                            *)
(***************************************************************************)
\* Filter.__init__
Filter(sos) == [sos |-> sos, zi |-> sosfilt_zi(sos)]

\* a process() that returns the filtered chunk but forgets the new state
FilterProcessKeepZi(f, data) ==
    [f |-> f, out |-> sosfilt(f.sos, data, f.zi).y]

\* Filter.process: returns the instance after the call and the filtered chunk
FilterProcess(f, data) ==
    LET r == sosfilt(f.sos, data, f.zi)
    IN  [f |-> [f EXCEPT !.zi = r.zi], out |-> r.y]

(***************************************************************************)
(* Inputs.                                                                 *)
(***************************************************************************)
Samples == {R(v) : v \in (-1)..MaxSample}

RECURSIVE SeqsOfLen(_, _)
SeqsOfLen(S, n) ==
    IF n = 0 THEN {<<>>}
    ELSE {<<x>> \o t : x \in S, t \in SeqsOfLen(S, n - 1)}

\* non-empty chunks of at most n samples
Chunks(n) == UNION {SeqsOfLen(Samples, k) : k \in 1..n}

Designs ==
    {create_lowpass, create_bandpass(1), create_bandpass(2),
     create_lowpass_filter, create_bandpass_filter}

(***************************************************************************)
(* SpecFilter: one Filter instance fed chunk after chunk.                  *)
(***************************************************************************)
FilterUnused ==
    /\ flt = <<>> /\ fltOut = <<>> /\ fltSeen = <<>> /\ fltCalls = 0

ProcUnused ==
    /\ proc = <<>> /\ procPrev = <<>> /\ procErr = FALSE /\ procFailed = FALSE
    /\ procSeen = <<>> /\ procEnv = <<>>

QuadUnused ==
    /\ qProcessors = <<>> /\ qCurves = <<>> /\ qTimer = "none" /\ qInlet = 0
    /\ qChannels = 0 /\ qSince = <<>> /\ qPulled = <<>>

EstUnused == estCall = <<>> /\ estResult = <<>>

StatUnused ==
    /\ stA = <<>> /\ stB = <<>> /\ stResult = <<>>
    /\ roOthers = <<>> /\ roIndex = 0 /\ roClean = <<>>
statVars == <<stA, stB, stResult, roOthers, roIndex, roClean>>
EnvUnused ==
    /\ vKind = "none" /\ vChannels = 0 /\ vProc = <<>> /\ vSeen = <<>>
envVars == <<vKind, vChannels, vProc, vSeen>>
RecUnused ==
    /\ rRunning = FALSE /\ rThread = 0 /\ rThreads = <<>> /\ rCtl = "none" /\ rLast = "none" /\ rFile = <<>> /\ rFile0 = <<>> /\ rPulled = <<>> /\ rCalls = 0
recVars == <<rRunning, rThread, rThreads, rCtl, rLast, rFile, rFile0, rPulled, rCalls>>
TickUnused ==
    /\ tView = "none" /\ tInput = <<>> /\ tBefore = <<>> /\ tAfter = <<>> /\ tTicks = 0
tickVars == <<tView, tInput, tBefore, tAfter, tTicks>>
DashUnused ==
    /\ dMode = "none" /\ dFile = 0 /\ dRecorder = 0 /\ dChecked = FALSE /\ dEnabled = FALSE /\ dText = <<>> /\ dLive = FALSE /\ dLoaded = FALSE /\ dTimer = FALSE /\ dStarted = 0
dashVars == <<dMode, dFile, dRecorder, dChecked, dEnabled, dText, dLive, dLoaded, dTimer, dStarted>>
CmpUnused ==
    /\ cDataA = <<>> /\ cDataB = <<>> /\ cOutcome = "none" /\ cCall = <<>> /\ cStats = <<>>
cmpVars == <<cDataA, cDataB, cOutcome, cCall, cStats>>
LiveUnused ==
    /\ lTimer = "none" /\ lMarkers = FALSE /\ lRaw = <<>> /\ lData = <<>>
    /\ lTrend = <<>> /\ lLines = 0 /\ lChunk = <<>> /\ lRaised = FALSE /\ lTicks = 0
    /\ lWindow = <<>>
liveVars == <<lTimer, lMarkers, lRaw, lData, lTrend, lLines, lChunk, lRaised, lTicks, lWindow>>
TrendUnused ==
    /\ tFile = -1 /\ tTimestamps = <<>> /\ tWindows = <<>> /\ tRaw = <<>> /\ tTrend = <<>>

estVars == <<estCall, estResult>>
trendVars == <<tFile, tTimestamps, tWindows, tRaw, tTrend>>
filterVars == <<flt, fltOut, fltSeen, fltCalls>>
procVars == <<proc, procPrev, procErr, procFailed, procSeen, procEnv>>
quadVars == <<qProcessors, qCurves, qTimer, qInlet, qChannels, qSince, qPulled>>

InitFilter ==
    /\ \E d \in Designs : flt = Filter(d)
    /\ fltOut = <<>>
    /\ fltSeen = <<>>
    /\ fltCalls = 0
    /\ ProcUnused
    /\ QuadUnused
    /\ EstUnused
    /\ TrendUnused
    /\ LiveUnused
    /\ StatUnused
    /\ EnvUnused
    /\ RecUnused
    /\ TickUnused
    /\ DashUnused
    /\ CmpUnused

Process(chunk) ==
    /\ Len(fltSeen) + Len(chunk) <= MaxTotal
    /\ LET r == FilterProcess(flt, chunk)
       IN  /\ flt' = r.f
           /\ fltOut' = fltOut \o r.out
    /\ fltSeen' = fltSeen \o chunk
    /\ fltCalls' = fltCalls + 1
    /\ UNCHANGED <<procVars, quadVars, estVars, trendVars, liveVars, statVars, envVars, recVars, tickVars, dashVars, cmpVars>>

NextFilter == \E chunk \in Chunks(MaxTotal) : Process(chunk)

SpecFilter == InitFilter /\ [][NextFilter]_vars

\* C1: feeding an input chunk by chunk through one Filter instance returns,
\* concatenated, what a single process() of the whole input returns on a fresh
\* instance of the same design, and leaves the same state zi.
C1_StreamingEquivalence ==
    LET whole == FilterProcess(Filter(flt.sos), fltSeen)
    IN  /\ fltOut = whole.out
        /\ flt.zi = whole.f.zi

\* an instance that has processed two chunks and carries a state that differs
\* from the initial one
C1_Witness ==
    /\ fltCalls = 2
    /\ flt.zi # sosfilt_zi(flt.sos)
    /\ fltOut # fltSeen

\* the designs made by create_lowpass and create_lowpass_filter
LowpassDesigns == {create_lowpass, create_lowpass_filter}

\* every sample fed so far has the value c
ConstantInput(c) == fltSeen # <<>> /\ \A i \in 1..Len(fltSeen) : fltSeen[i] = c

\* C15: a newly constructed Filter fed a constant input of any value c gives a
\* constant output from its first sample: c for a lowpass, 0 for a bandpass.
C15_NoStartupTransient ==
    \A c \in Samples :
        ConstantInput(c) =>
            \A i \in 1..Len(fltOut) :
                fltOut[i] = IF flt.sos \in LowpassDesigns THEN c ELSE Zero

(***************************************************************************)
(* numpy ring-buffer idiom:  buf = np.roll(buf, -n);  buf[-n:] = values    *)
(***************************************************************************)
\* np.zeros(n)
NpZeros(n) == [i \in 1..n |-> Zero]

\* a push that forgets to roll: the newest samples overwrite the previous ones
NpRollNone(buf, shift) == buf

\* np.roll(buf, shift): element i of the result is element i - shift (mod C)
NpRoll(buf, shift) ==
    LET C == Len(buf)
    IN  [i \in 1..C |-> buf[((i - 1 - shift) % C) + 1]]

\* first index (1-based) of the slice buf[-n:]; -0 is 0, so buf[-0:] is all of buf
TailStart(C, n) == IF n = 0 \/ n > C THEN 1 ELSE C - n + 1

\* buf[-n:] = values is accepted when values has the slice's length or length 1
TailAssignOk(buf, n, values) ==
    LET m == Len(buf) - TailStart(Len(buf), n) + 1
    IN  Len(values) = m \/ Len(values) = 1

\* buf[-n:] = values
TailAssign(buf, n, values) ==
    LET st == TailStart(Len(buf), n)
    IN  [i \in 1..Len(buf) |->
            IF i < st THEN buf[i]
            ELSE IF Len(values) = 1 THEN values[1] ELSE values[i - st + 1]]

(***************************************************************************)
(* class SignalProcessor (quadrants.py, muse_dashboard.py)                 *)
(***************************************************************************)
Bands == 1..NumBands

\* SignalProcessor.__init__
SignalProcessor ==
    [bp      |-> [i \in Bands |-> Filter(create_bandpass(i))],
     lp      |-> [i \in Bands |-> Filter(create_lowpass)],
     buffers |-> [i \in Bands |-> NpZeros(BUFFER_SIZE)]]

\* Step D of the loop body for band i: roll the buffer, then store the envelope.
\* The rolled copy is bound to self.buffers[i] before the slice assignment runs,
\* so a failing assignment leaves the rolled buffer behind.
StoreEnvelope(p, i, n_new, envelope) ==
    [p |-> [p EXCEPT !.buffers[i] =
                IF TailAssignOk(@, n_new, envelope)
                THEN TailAssign(NpRoll(@, -n_new), n_new, envelope)
                ELSE NpRoll(@, -n_new)],
     err |-> ~TailAssignOk(p.buffers[i], n_new, envelope),
     envelope |-> envelope]

\* Step C: smooth the rectified, log-compressed wave with the band's lowpass
SmoothBand(p, i, n_new, c) ==
    StoreEnvelope([p EXCEPT !.lp[i] = c.f], i, n_new, c.out)

\* Steps A and B: bandpass, then rectify and log
BandpassBand(p, i, n_new, a) ==
    SmoothBand([p EXCEPT !.bp[i] = a.f], i, n_new,
               FilterProcess(p.lp[i], NpLog1p(NpAbs(a.out))))

\* the body of the loop of process_and_store for band i
ProcessBand(p, chunk, i) ==
    BandpassBand(p, i, Len(chunk), FilterProcess(p.bp[i], chunk))

\* what the loop has done once band i has been handled with result r
RECURSIVE ProcessBandsFrom(_, _, _, _)
AfterBand(r, chunk, i, envs) ==
    IF r.err THEN [p |-> r.p, err |-> TRUE, envs |-> envs]
    ELSE ProcessBandsFrom(r.p, chunk, i + 1, [envs EXCEPT ![i] = @ \o r.envelope])

\* the loop of process_and_store from band i on.  Returns the processor,
\* whether the call raised, and the envelopes stored.
ProcessBandsFrom(p, chunk, i, envs) ==
    IF i > NumBands THEN [p |-> p, err |-> FALSE, envs |-> envs]
    ELSE AfterBand(ProcessBand(p, chunk, i), chunk, i, envs)

\* SignalProcessor.process_and_store
process_and_store(p, chunk, envs) == ProcessBandsFrom(p, chunk, 1, envs)

(***************************************************************************)
(* Quadrants.load_static_file: the envelope of a whole recorded channel,   *)
(* filtered in one go with sosfilt and no zi.                              *)
(***************************************************************************)
StaticEnvelope(sensor_data, band) ==
    LET sos_bp == create_bandpass(band)
        wave == sosfilt(sos_bp, sensor_data, ZeroZi(sos_bp)).y
        sos_lp == create_lowpass
    IN  sosfilt(sos_lp, NpLog1p(NpAbs(wave)), ZeroZi(sos_lp)).y

(***************************************************************************)
(* SpecProc: one SignalProcessor fed chunk after chunk.                    *)
(***************************************************************************)
InitProc ==
    /\ FilterUnused
    /\ QuadUnused
    /\ EstUnused
    /\ TrendUnused
    /\ LiveUnused
    /\ StatUnused
    /\ EnvUnused
    /\ RecUnused
    /\ TickUnused
    /\ DashUnused
    /\ CmpUnused
    /\ proc = SignalProcessor
    /\ procPrev = SignalProcessor
    /\ procErr = FALSE
    /\ procFailed = FALSE
    /\ procSeen = <<>>
    /\ procEnv = [i \in Bands |-> <<>>]

ProcessAndStore(chunk) ==
    /\ Len(procSeen) + Len(chunk) <= MaxTotal
    /\ LET r == process_and_store(proc, chunk, procEnv)
       IN  /\ proc' = r.p
           /\ procErr' = r.err
           /\ procFailed' = (procFailed \/ r.err)
           /\ procEnv' = r.envs
    /\ procPrev' = proc
    /\ procSeen' = procSeen \o chunk
    /\ UNCHANGED <<filterVars, quadVars, estVars, trendVars, liveVars, statVars, envVars, recVars, tickVars, dashVars, cmpVars>>

NextProc == \E chunk \in Chunks(BUFFER_SIZE + 1) : ProcessAndStore(chunk)

SpecProc == InitProc /\ [][NextProc]_vars

\* the last C elements of s
LastC(s, C) == SubSeq(s, Len(s) - C + 1, Len(s))

\* C2: a process_and_store call that raises leaves every filter state and
\* every display buffer of the processor as it was before the call.
C2_FailureAtomicity == procErr => proc = procPrev

\* C3: as long as every pushed chunk had between 1 and C samples, each display
\* buffer has length C and holds the last C elements of C zeros followed by all
\* envelope values pushed, in arrival order.
C3_RingBuffer ==
    ~procFailed =>
        \A i \in Bands :
            /\ Len(proc.buffers[i]) = BUFFER_SIZE
            /\ proc.buffers[i] = LastC(NpZeros(BUFFER_SIZE) \o procEnv[i], BUFFER_SIZE)

\* several pushes whose total exceeds the capacity, so that pushed samples
\* have been evicted
C3_Witness ==
    /\ ~procFailed
    /\ Len(procSeen) > BUFFER_SIZE
    /\ \A i \in Bands : Len(procEnv[i]) = Len(procSeen)
    /\ proc.buffers[1] # NpZeros(BUFFER_SIZE)

\* C5: the envelope values a fresh SignalProcessor produces for a signal fed in
\* chunks equal the envelope load_static_file computes over the whole signal.
C5_BatchStreamConsistency ==
    ~procFailed => \A i \in Bands : procEnv[i] = StaticEnvelope(procSeen, i)

(***************************************************************************)
(* class Quadrants (quadrants.py): the plots 'avg' and one per sensor.     *)
(* A frame is one row of a chunk: a sequence of per-channel readings.      *)
(***************************************************************************)
\* SENSOR_LAYOUT: the sensors in the order update() visits them, with the
\* column (1-based) of each in a chunk: AF7 = 1, AF8 = 2, TP9 = 0, TP10 = 3
SENSOR_LAYOUT == << <<"AF7", 2>>, <<"AF8", 3>>, <<"TP9", 1>>, <<"TP10", 4>> >>

PlotKeys == {"avg"} \cup {SENSOR_LAYOUT[k][1] : k \in 1..Len(SENSOR_LAYOUT)}

\* the frames a stream of n channels delivers: four distinct sensor readings
\* around v, then auxiliary channels
FrameOf(v, n) == [c \in 1..n |-> IF c = 1 THEN R(v + 2)
                                 ELSE IF c = 2 THEN R(v + 1)
                                 ELSE IF c = 3 THEN R(v - 1)
                                 ELSE IF c = 4 THEN R(v - 2)
                                 ELSE R(7)]

Frames(n) == {FrameOf(v, n) : v \in 0..MaxFrameValue}

\* what pull_chunk can return: any sequence of at most k frames, empty included
PullChunks(n, k) == UNION {SeqsOfLen(Frames(n), j) : j \in 0..k}

\* the recorded files a view can be asked to load: rows of four sensor columns
Recordings == {<<FrameOf(1, 4), FrameOf(0, 4)>>}

\* a cut to the last four columns, chunk_np[:, -4:]
ForceFourLast(chunk) ==
    [r \in 1..Len(chunk) |->
        IF Len(chunk[r]) > 4 THEN SubSeq(chunk[r], Len(chunk[r]) - 3, Len(chunk[r]))
        ELSE chunk[r]]

\* chunk_np[:, :4] when chunk_np.shape[1] > 4
ForceFour(chunk) ==
    [r \in 1..Len(chunk) |->
        IF Len(chunk[r]) > 4 THEN SubSeq(chunk[r], 1, 4) ELSE chunk[r]]

\* np.mean(chunk_np, axis=1)
RowMeans(chunk) ==
    [r \in 1..Len(chunk) |-> RDiv(RSum(chunk[r]), R(Len(chunk[r])))]

\* chunk_np[:, idx]
Column(chunk, col) == [r \in 1..Len(chunk) |-> chunk[r][col]]

\* Quadrants.init_plots
InitProcessors == [k \in PlotKeys |-> SignalProcessor]
InitCurves == [k \in PlotKeys |-> [i \in Bands |-> <<>>]]

NoEnvs == [i \in Bands |-> <<>>]

\* the 1-D signal update() feeds to the processor of plot k
SignalFor(k, chunk_np) ==
    IF k = "avg" THEN RowMeans(chunk_np)
    ELSE Column(chunk_np, (CHOOSE e \in {SENSOR_LAYOUT[j] : j \in 1..Len(SENSOR_LAYOUT)} :
                               e[1] = k)[2])

\* an update that hands every chunk to its processors a second time
UpdateProcessorsTwice(procs, chunk_np) ==
    [k \in PlotKeys |->
        process_and_store(process_and_store(procs[k], SignalFor(k, chunk_np), NoEnvs).p,
                          SignalFor(k, chunk_np), NoEnvs).p]

\* Quadrants.update with a non-empty chunk: every processor stores the chunk
UpdateProcessors(procs, chunk_np) ==
    [k \in PlotKeys |-> process_and_store(procs[k], SignalFor(k, chunk_np), NoEnvs).p]

InitQuad ==
    /\ FilterUnused
    /\ ProcUnused
    /\ EstUnused
    /\ TrendUnused
    /\ LiveUnused
    /\ StatUnused
    /\ EnvUnused
    /\ RecUnused
    /\ TickUnused
    /\ DashUnused
    /\ CmpUnused
    /\ qProcessors = InitProcessors
    /\ qCurves = InitCurves
    /\ qTimer = "none"
    /\ qInlet = 0
    /\ qChannels = 0
    /\ qSince = <<>>
    /\ qPulled = <<>>

\* Quadrants.load_stream: resolve_stream finds a stream of `channels` channels
\* (found) or times out.  The launcher calls it when the tabs are created and
\* from "Switch to Live", a button shown only during playback, when the timer
\* is not running.
LoadStream(found, channels) ==
    /\ qTimer # "running"
    /\ IF found
       THEN /\ qInlet < MaxConnections
            /\ qInlet' = qInlet + 1
            /\ qChannels' = channels
            /\ qTimer' = "running"
            /\ qSince' = <<>>
       ELSE UNCHANGED <<qInlet, qChannels, qTimer, qSince>>
    /\ UNCHANGED <<qProcessors, qCurves, qPulled>>
    /\ UNCHANGED <<filterVars, procVars, estVars, trendVars, liveVars, statVars, envVars, recVars, tickVars, dashVars, cmpVars>>

\* the curves load_static_file draws for each recording: per plot and band the
\* envelope of the whole file
RecordingCurves ==
    [data \in Recordings |->
        [k \in PlotKeys |-> [i \in Bands |-> StaticEnvelope(SignalFor(k, data), i)]]]

\* Quadrants.load_static_file: the timer is stopped, then every curve shows the
\* envelope of the whole file (or, when reading the file fails, nothing changes)
LoadStaticFile(data, readable) ==
    /\ qTimer' = IF qTimer = "none" THEN "none" ELSE "stopped"
    /\ qCurves' = IF readable THEN RecordingCurves[data] ELSE qCurves
    /\ UNCHANGED <<qProcessors, qInlet, qChannels, qSince, qPulled>>
    /\ UNCHANGED <<filterVars, procVars, estVars, trendVars, liveVars, statVars, envVars, recVars, tickVars, dashVars, cmpVars>>

\* Quadrants.update, one timer tick
Update(chunk) ==
    /\ qTimer = "running"
    /\ Len(qSince) + Len(chunk) <= MaxViewFrames
    /\ Len(qPulled) + Len(chunk) <= MaxPulled
    /\ IF chunk # <<>>
       THEN /\ qProcessors' = UpdateProcessors(qProcessors, ForceFour(chunk))
            /\ qCurves' = [k \in PlotKeys |-> qProcessors'[k].buffers]
            /\ qSince' = qSince \o ForceFour(chunk)
            /\ qPulled' = qPulled \o ForceFour(chunk)
       ELSE UNCHANGED <<qProcessors, qCurves, qSince, qPulled>>
    /\ UNCHANGED <<qTimer, qInlet, qChannels>>
    /\ UNCHANGED <<filterVars, procVars, estVars, trendVars, liveVars, statVars, envVars, recVars, tickVars, dashVars, cmpVars>>

NextQuad ==
    \/ \E found \in BOOLEAN, channels \in {4, 5} : LoadStream(found, channels)
    \/ \E data \in Recordings, readable \in BOOLEAN : LoadStaticFile(data, readable)
    \/ \E chunk \in PullChunks(qChannels, MaxViewFrames) : Update(chunk)

SpecQuad == InitQuad /\ [][NextQuad]_vars

\* C6: when a view has (re)connected to a stream and has not yet processed a
\* chunk of it, every filter state and display buffer it will use for the
\* stream has its initial value.
C6_ResetOnRebuild ==
    (qTimer = "running" /\ qSince = <<>>) => qProcessors = InitProcessors

(***************************************************************************)
(* Spectral band-power estimator (analysis_helper.py, live_graph.py).      *)
(*                                                                         *)
(* A value is a rational or NaN, written <<0, 0>>.  scipy.signal.welch is  *)
(* not computed: the PSD it returns is an input of the model, flat within  *)
(* each band, pw[s][b] >= 0 being the level of sensor s in band b.  Which  *)
(* frequency bins exist is computed as welch does (k*sf/nperseg for        *)
(* k = 0 .. nperseg/2).  log10 is replaced by its piecewise-linear         *)
(* interpolation at the powers of ten, which is exact at 1e-6.             *)
(***************************************************************************)
SF == 256
UPDATE_FPS == 10
AVERAGE_TRENDLINE_PERIOD == 30

NaN == <<0, 0>>
IsNaN(x) == x[2] = 0
RLeq(x, y) == ~RLess(y, x)

\* 1e-6
Epsilon == <<1, 1000000>>

\* BANDS of analysis_helper.py and live_graph.py: (low, high) in Hz
BAND_EDGES ==
    << <<<<1,2>>, R(4)>>, <<R(4), R(8)>>, <<R(8), R(13)>>,
       <<R(13), R(30)>>, <<R(30), R(45)>> >>

BAND_NAMES == 1..Len(BAND_EDGES)

\* np.mean of a list of values: NaN for an empty list or a list holding a NaN
NpMean(vals) ==
    IF vals = <<>> \/ \E i \in 1..Len(vals) : IsNaN(vals[i]) THEN NaN
    ELSE RDiv(RSum(vals), R(Len(vals)))

\* a - b on values
NpSub(a, b) == IF IsNaN(a) \/ IsNaN(b) THEN NaN ELSE RSub(a, b)

\* np.log10 of a positive rational
RECURSIVE Log10Piece(_, _, _)
Log10Piece(x, k, pow) ==
    IF RLess(x, pow) THEN Log10Piece(x, k - 1, RDiv(pow, R(10)))
    ELSE IF RLeq(RMul(R(10), pow), x) THEN Log10Piece(x, k + 1, RMul(R(10), pow))
    ELSE RAdd(R(k), RDiv(RSub(x, pow), RMul(R(9), pow)))

\* np.log10(power + 1e-6): NaN for NaN and for a negative argument
Log10Eps(power) ==
    IF IsNaN(power) THEN NaN
    ELSE IF RLeq(RAdd(power, Epsilon), Zero) THEN NaN
    ELSE Log10Piece(RAdd(power, Epsilon), 0, One)

\* idx = logical_and(freqs >= low, freqs <= high) selects some bin; the bins
\* are freqs[k] = k*sf/nperseg
BandHasBins(band, sf, nperseg) ==
    \E k \in 0..(nperseg \div 2) :
        /\ BAND_EDGES[band][1][1] * nperseg <= k * sf * BAND_EDGES[band][1][2]
        /\ k * sf * BAND_EDGES[band][2][2] <= BAND_EDGES[band][2][1] * nperseg

\* np.mean(psd[lo:hi, idx]) for sensors lo+1 .. hi (0-based slice lo:hi)
MeanPsd(pw, lo, hi, num_sensors, band, sf, nperseg) ==
    IF ~BandHasBins(band, sf, nperseg) THEN NaN
    ELSE NpMean([s \in 1..((IF hi < num_sensors THEN hi ELSE num_sensors) - lo) |->
                    pw[lo + s][band]])

\* the loop over BAND_NAMES of analysis_helper.calculate_band_powers
HelperBandPower(pw, num_sensors, num_samples, sf, left_right_coherence, band) ==
    LET nperseg == IF num_samples < sf THEN num_samples ELSE sf
    IN  IF left_right_coherence /\ num_sensors >= 4
        THEN Log10Eps(NpSub(MeanPsd(pw, 0, 2, num_sensors, band, sf, nperseg),
                            MeanPsd(pw, 2, 4, num_sensors, band, sf, nperseg)))
        ELSE Log10Eps(MeanPsd(pw, 0, num_sensors, num_sensors, band, sf, nperseg))

\* analysis_helper.calculate_band_powers after the orientation is decided.
\* `lib` is what welch and the indexing after it do with an array of size 0,
\* which the source does not determine: "raise" or "nan".
HelperOriented(num_sensors, num_samples, sf, left_right_coherence, pw, lib) ==
    IF num_samples = 0
    THEN [raised |-> FALSE, powers |-> [b \in BAND_NAMES |-> Zero]]
    ELSE IF num_sensors = 0
    THEN IF lib = "raise" THEN [raised |-> TRUE, powers |-> <<>>]
         ELSE [raised |-> FALSE, powers |-> [b \in BAND_NAMES |-> NaN]]
    ELSE [raised |-> FALSE,
          powers |-> [b \in BAND_NAMES |->
                        HelperBandPower(pw, num_sensors, num_samples, sf,
                                        left_right_coherence, b)]]

\* analysis_helper.calculate_band_powers on an array of shape (rows, cols):
\* a (Sensors, Samples) array is kept, anything else is transposed
calculate_band_powers(rows, cols, sf, left_right_coherence, pw, lib) ==
    IF rows < cols /\ rows <= 4
    THEN HelperOriented(rows, cols, sf, left_right_coherence, pw, lib)
    ELSE HelperOriented(cols, rows, sf, left_right_coherence, pw, lib)

\* GRAPH_LEFT_RIGHT_COHERENCE
GRAPH_LEFT_RIGHT_COHERENCE == FALSE

\* the loop over BAND_NAMES of LiveMuseGraph.calculate_band_powers, the module
\* having GRAPH_LEFT_RIGHT_COHERENCE set to `coherence`
LiveBandPowerSet(coherence, pw, num_sensors, nperseg, band) ==
    IF coherence
    THEN Log10Eps(NpSub(MeanPsd(pw, 0, 2, num_sensors, band, SF, nperseg),
                        MeanPsd(pw, 2, 4, num_sensors, band, SF, nperseg)))
    ELSE Log10Eps(MeanPsd(pw, 0, num_sensors, num_sensors, band, SF, nperseg))

LiveBandPower(pw, num_sensors, nperseg, band) ==
    LiveBandPowerSet(GRAPH_LEFT_RIGHT_COHERENCE, pw, num_sensors, nperseg, band)

\* LiveMuseGraph.calculate_band_powers on an array of shape (rows, cols) =
\* (Samples, Sensors), the module having GRAPH_LEFT_RIGHT_COHERENCE set to
\* `coherence`
LiveCalculateBandPowersSet(coherence, rows, cols, pw, lib) ==
    IF rows = 0 \/ cols = 0
    THEN IF lib = "raise" THEN [raised |-> TRUE, powers |-> <<>>]
         ELSE [raised |-> FALSE, powers |-> [b \in BAND_NAMES |-> NaN]]
    ELSE [raised |-> FALSE,
          powers |-> [b \in BAND_NAMES |->
                        LiveBandPowerSet(coherence, pw, cols,
                                         IF rows < SF THEN rows ELSE SF, b)]]

\* LiveMuseGraph.calculate_band_powers as the module is configured
LiveCalculateBandPowers(rows, cols, pw, lib) ==
    LiveCalculateBandPowersSet(GRAPH_LEFT_RIGHT_COHERENCE, rows, cols, pw, lib)

(***************************************************************************)
(* SpecEst: the estimator called on windows of every small shape and on    *)
(* one-second windows.                                                     *)
(***************************************************************************)
\* shapes (rows, cols): every small shape, one-second windows of up to MaxDim
\* sensors as (Samples, Sensors), and as (Sensors, Samples) for up to 4 sensors
Shapes ==
    ((0..MaxDim) \X (0..MaxDim)) \cup ({SF} \X (0..MaxDim))
        \cup ((0..4) \X {SF})

\* PSD levels: equal sensors, louder left sensors, louder right sensors
PsdPatterns ==
    { [s \in 1..MaxDim |-> [b \in BAND_NAMES |-> One]],
      [s \in 1..MaxDim |-> [b \in BAND_NAMES |-> IF s <= 2 THEN R(b) ELSE Zero]],
      [s \in 1..MaxDim |-> [b \in BAND_NAMES |-> IF s <= 2 THEN Zero ELSE <<b, 4>>]] }

InitEst ==
    /\ FilterUnused /\ ProcUnused /\ QuadUnused /\ TrendUnused /\ LiveUnused /\ StatUnused /\ EnvUnused /\ RecUnused /\ TickUnused /\ DashUnused /\ CmpUnused
    /\ estCall = [fn |-> "none", rows |-> 0, cols |-> 0, lrc |-> FALSE,
                  pw |-> <<>>, lib |-> "none"]
    /\ estResult = [raised |-> FALSE, powers |-> <<>>]

CalcHelper(rows, cols, lrc, pw, lib) ==
    /\ estCall.fn = "none"
    /\ estCall' = [fn |-> "analysis_helper", rows |-> rows, cols |-> cols, lrc |-> lrc,
                   pw |-> pw, lib |-> lib]
    /\ estResult' = calculate_band_powers(rows, cols, SF, lrc, pw, lib)
    /\ UNCHANGED <<filterVars, procVars, quadVars, trendVars, liveVars, statVars, envVars, recVars, tickVars, dashVars, cmpVars>>

\* LiveMuseGraph.calculate_band_powers, the module's GRAPH_LEFT_RIGHT_COHERENCE
\* being set to `coherence`
CalcLive(rows, cols, coherence, pw, lib) ==
    /\ estCall.fn = "none"
    /\ estCall' = [fn |-> "live_graph", rows |-> rows, cols |-> cols,
                   lrc |-> coherence, pw |-> pw, lib |-> lib]
    /\ estResult' = LiveCalculateBandPowersSet(coherence, rows, cols, pw, lib)
    /\ UNCHANGED <<filterVars, procVars, quadVars, trendVars, liveVars, statVars, envVars, recVars, tickVars, dashVars, cmpVars>>

NextEst ==
    \/ \E shape \in Shapes, lrc \in BOOLEAN, pw \in PsdPatterns,
          lib \in {"raise", "nan"} : CalcHelper(shape[1], shape[2], lrc, pw, lib)
    \/ \E shape \in Shapes, coherence \in BOOLEAN, pw \in PsdPatterns,
          lib \in {"raise", "nan"} :
          /\ shape[2] <= MaxDim
          /\ CalcLive(shape[1], shape[2], coherence, pw, lib)

SpecEst == InitEst /\ [][NextEst]_vars

\* C9: calculate_band_powers called with a window of zero samples (an array
\* with a dimension of size 0) does not raise and returns one zero per band.
C9_ZeroWindowSafety ==
    (estCall.fn # "none" /\ (estCall.rows = 0 \/ estCall.cols = 0)) =>
        /\ ~estResult.raised
        /\ estResult.powers = [b \in BAND_NAMES |-> Zero]

\* the number of channels a call finds in its window
CallSensors ==
    IF estCall.fn = "analysis_helper" /\ estCall.rows < estCall.cols /\ estCall.rows <= 4
    THEN estCall.rows
    ELSE estCall.cols
CallSamples ==
    IF estCall.fn = "analysis_helper" /\ estCall.rows < estCall.cols /\ estCall.rows <= 4
    THEN estCall.cols
    ELSE estCall.rows

\* what the same call returns in average mode
AverageMode ==
    IF estCall.fn = "analysis_helper"
    THEN calculate_band_powers(estCall.rows, estCall.cols, SF, FALSE, estCall.pw, estCall.lib)
    ELSE LiveCalculateBandPowersSet(FALSE, estCall.rows, estCall.cols, estCall.pw, estCall.lib)

\* log10(mean(left) - mean(right) + epsilon) over the bins of a band, left
\* being channels 0 and 1 and right channels 2 and 3
LeftMinusRight(band) ==
    IF ~BandHasBins(band, SF, IF CallSamples < SF THEN CallSamples ELSE SF) THEN NaN
    ELSE Log10Eps(RSub(RDiv(RAdd(estCall.pw[1][band], estCall.pw[2][band]), R(2)),
                       RDiv(RAdd(estCall.pw[3][band], estCall.pw[4][band]), R(2))))

\* C18: a call in hemispheric-difference mode returns per band the left mean
\* minus the right mean when the window has at least 4 channels, and what
\* average mode returns for any window with fewer than 4 channels.
C18_HemisphericFallback ==
    (estCall.fn # "none" /\ estCall.lrc) =>
        IF CallSensors < 4
        THEN estResult = AverageMode
        ELSE CallSamples > 0 =>
                 /\ ~estResult.raised
                 /\ estResult.powers = [b \in BAND_NAMES |-> LeftMinusRight(b)]


(***************************************************************************)
(* SpecTrend: LiveMuseGraph.load_static_file, the sliding-window analysis  *)
(* of a recorded file and its trend line.                                  *)
(***************************************************************************)
\* 20 seconds of recording at SF
TwentySeconds == 20 * SF

FileLengths == (0..MaxFileSamples) \cup {TwentySeconds}

\* what welch returns for the window starting at row `start` of file
\* content `content`: four sensors, levels 1 .. 5
WindowPsd(content, start) ==
    [s \in 1..4 |-> [b \in BAND_NAMES |->
                        R(1 + ((start * content + b) % 4) + (s % 2))]]

\* list(range(0, stop, step))
Range(stop, step) ==
    [k \in 1..(IF stop <= 0 THEN 0 ELSE ((stop - 1) \div step) + 1) |-> (k - 1) * step]

\* start / SF
Timestamp(start) == Norm(start, SF)

\* data[start:end] as the pair of its first and last+1 row, clipped to the data
Slice(n_samples, start, end) ==
    <<IF start < n_samples THEN start ELSE n_samples,
      IF end < n_samples THEN end ELSE n_samples>>

\* series.rolling(window, center=True).mean(): position i (1-based) averages
\* positions i - window \div 2 .. i + (window - 1) \div 2 and is NaN unless
\* all of them exist
Rolling(series, window) ==
    [i \in 1..Len(series) |->
        LET lo == i - (window \div 2)
            hi == i + ((window - 1) \div 2)
        IN  IF lo < 1 \/ hi > Len(series) THEN NaN
            ELSE NpMean([j \in 1..window |-> series[lo + j - 1]])]

\* fillna(method='bfill'): a NaN takes the next valid value, if there is one
Bfill(series) ==
    [i \in 1..Len(series) |->
        IF ~IsNaN(series[i]) THEN series[i]
        ELSE LET later == {j \in i..Len(series) : ~IsNaN(series[j])}
             IN  IF later = {} THEN NaN
                 ELSE series[CHOOSE j \in later : \A k \in later : j <= k]]

\* fillna(method='ffill'): a NaN takes the last valid value before it
Ffill(series) ==
    [i \in 1..Len(series) |->
        IF ~IsNaN(series[i]) THEN series[i]
        ELSE LET earlier == {j \in 1..i : ~IsNaN(series[j])}
             IN  IF earlier = {} THEN NaN
                 ELSE series[CHOOSE j \in earlier : \A k \in earlier : j >= k]]

\* trend_curve of one band
TrendCurve(raw_curve) == Ffill(Bfill(Rolling(raw_curve, AVERAGE_TRENDLINE_PERIOD)))

window_size == SF
step_size == SF \div UPDATE_FPS

\* powers = calculate_band_powers(chunk) for the chunk of each start
WindowPowers(content, n_samples, starts) ==
    [k \in 1..Len(starts) |->
        LiveCalculateBandPowers(
            Slice(n_samples, starts[k], starts[k] + window_size)[2] - starts[k], 4,
            WindowPsd(content, starts[k]), "raise").powers]

\* what load_static_file leaves on the plot for the given starts and powers
PlotFile(n_samples, starts, powers) ==
    /\ tFile' = n_samples
    /\ tTimestamps' = [k \in 1..Len(starts) |-> Timestamp(starts[k])]
    /\ tWindows' = [k \in 1..Len(starts) |->
                       Slice(n_samples, starts[k], starts[k] + window_size)]
    /\ tRaw' = [b \in BAND_NAMES |-> [k \in 1..Len(starts) |-> powers[k][b]]]
    /\ tTrend' = [b \in BAND_NAMES |-> TrendCurve(tRaw'[b])]

\* the sliding-window loop of load_static_file over the given starts
AnalyseFile(content, n_samples, starts) ==
    PlotFile(n_samples, starts, WindowPowers(content, n_samples, starts))

InitTrend ==
    /\ FilterUnused /\ ProcUnused /\ QuadUnused /\ EstUnused /\ LiveUnused /\ StatUnused /\ EnvUnused /\ RecUnused /\ TickUnused /\ DashUnused /\ CmpUnused
    /\ tFile = -1
    /\ tTimestamps = <<>>
    /\ tWindows = <<>>
    /\ tRaw = <<>>
    /\ tTrend = <<>>

\* LiveMuseGraph.load_static_file on a readable file of n_samples rows.  One
\* file is loaded per behaviour: what is plotted depends on the file alone.
LoadTrendFile(n_samples, content) ==
    /\ tFile = -1
    /\ AnalyseFile(content, n_samples, Range(n_samples - window_size, step_size))
    /\ UNCHANGED <<filterVars, procVars, quadVars, estVars, liveVars, statVars, envVars, recVars, tickVars, dashVars, cmpVars>>

NextTrend ==
    \E n_samples \in FileLengths, content \in 1..2 : LoadTrendFile(n_samples, content)

SpecTrend == InitTrend /\ [][NextTrend]_vars

\* the starts k*step_size with start + window_size <= total
CoveredStarts(total) ==
    {start \in 0..total : start % step_size = 0 /\ start + window_size <= total}

\* C7: the file analysis emits exactly one entry for every start = k*step_size
\* with start + window_size <= total_samples, the window ending at the last
\* sample included; entry k is data[start:start+window_size] with timestamp
\* start/SF, in increasing order.
C7_SlidingWindowCoverage ==
    tFile >= 0 =>
        /\ Len(tWindows) = Cardinality(CoveredStarts(tFile))
        /\ Len(tTimestamps) = Len(tWindows)
        /\ \A k \in 1..Len(tWindows) :
              /\ tWindows[k] = <<(k - 1) * step_size, (k - 1) * step_size + window_size>>
              /\ tTimestamps[k] = Norm((k - 1) * step_size, SF)

\* C8: a 20-second file at 256 Hz gives floor((20*256 - 256) / 25.6) + 1 = 191
\* time points and the first timestamp is 0.0.
C8_TimePointCount ==
    tFile = TwentySeconds =>
        /\ Len(tTimestamps) = (((TwentySeconds - window_size) * UPDATE_FPS) \div SF) + 1
        /\ tTimestamps[1] = Zero

\* C10: for a raw series of length L >= 1, shorter than the trend window
\* included, the trend of every band has length L and no missing value.
C10_TrendComplete ==
    \A b \in DOMAIN tRaw :
        Len(tRaw[b]) >= 1 =>
            /\ Len(tTrend[b]) = Len(tRaw[b])
            /\ \A i \in 1..Len(tTrend[b]) : ~IsNaN(tTrend[b][i])

(***************************************************************************)
(* SpecLive: LiveMuseGraph in streaming mode (live_graph.py).              *)
(***************************************************************************)
\* rows of raw_buffer
RawBufferRows == SF * 2

\* what pull_chunk can return on a tick: nothing, one frame, the frames of a
\* tick, of a long stall, or more; the frames of a chunk differ from row to row
LiveChunkLengths == {0, 1, SF \div UPDATE_FPS, RawBufferRows, RawBufferRows + 1}
LiveChunks(n) ==
    {[i \in 1..len |-> FrameOf((v + i) % (MaxFrameValue + 1), n)] :
        len \in LiveChunkLengths, v \in 0..MaxFrameValue}

\* np.zeros((rows, 4))
NpZeros2(rows) == [r \in 1..rows |-> [c \in 1..4 |-> Zero]]

\* series.rolling(window).mean(): position i averages the window ending at i
\* and is NaN before a full window exists
RollingRight(series, window) ==
    [i \in 1..Len(series) |->
        IF i < window THEN NaN
        ELSE NpMean([j \in 1..window |-> series[i - window + j]])]

\* pd.concat([series.iloc[1:], pd.Series([value])])
ShiftAppend(series, value) == Tail(series) \o <<value>>

\* LiveMuseGraph.init_plots: curves_trend have no data yet
InitLive ==
    /\ FilterUnused /\ ProcUnused /\ QuadUnused /\ EstUnused /\ TrendUnused /\ StatUnused /\ EnvUnused /\ RecUnused /\ TickUnused /\ DashUnused /\ CmpUnused
    /\ lTimer = "none"
    /\ lMarkers = FALSE
    /\ lRaw = NpZeros2(RawBufferRows)
    /\ lData = [b \in BAND_NAMES |-> [i \in 1..DataBufferSize |-> Zero]]
    /\ lTrend = [b \in BAND_NAMES |-> <<>>]
    /\ lLines = 0
    /\ lChunk = <<>>
    /\ lRaised = FALSE
    /\ lTicks = 0
    /\ lWindow = <<>>

\* LiveMuseGraph.load_stream: found = an EEG stream was resolved,
\* markers = a Markers stream was resolved
LiveLoadStream(found, markers) ==
    /\ lTimer = "none"
    /\ IF found
       THEN /\ lMarkers' = markers
            /\ lTimer' = "running"
       ELSE UNCHANGED <<lMarkers, lTimer>>
    /\ UNCHANGED <<lRaw, lData, lTrend, lLines, lChunk, lRaised, lTicks, lWindow>>
    /\ UNCHANGED <<filterVars, procVars, quadVars, estVars, trendVars, statVars, envVars, recVars, tickVars, dashVars, cmpVars>>

\* steps 2 and 3 of update(): the estimator on the whole raw buffer, then the
\* data buffers and the trend lines; pw is what welch finds in the buffer
LivePlot(raw_buffer, pw) ==
    LET new_powers == LiveCalculateBandPowers(Len(raw_buffer), 4, pw, "raise").powers
    IN  /\ lWindow' = raw_buffer
        /\ lData' = [b \in BAND_NAMES |-> ShiftAppend(lData[b], new_powers[b])]
        /\ lTrend' = [b \in BAND_NAMES |->
                         RollingRight(lData'[b], AVERAGE_TRENDLINE_PERIOD)]

\* step 1 of update() for a non-empty chunk, then the rest when it did not raise
LivePush(chunk_np, rolled, pw) ==
    /\ lRaw' = IF TailAssignOk(rolled, Len(chunk_np), chunk_np)
               THEN TailAssign(rolled, Len(chunk_np), chunk_np)
               ELSE rolled
    /\ lRaised' = ~TailAssignOk(rolled, Len(chunk_np), chunk_np)
    /\ IF TailAssignOk(rolled, Len(chunk_np), chunk_np)
       THEN LivePlot(lRaw', pw)
       ELSE UNCHANGED <<lData, lTrend, lWindow>>

\* LiveMuseGraph.update, one timer tick: chunk is what pull_chunk returns,
\* marker whether the marker inlet has a sample
LiveUpdate(chunk, pw, marker) ==
    /\ lTimer = "running"
    /\ lTicks < MaxLiveTicks
    /\ lTicks' = lTicks + 1
    /\ lChunk' = chunk
    /\ IF chunk # <<>>
       THEN LivePush(ForceFour(chunk), NpRoll(lRaw, -Len(chunk)), pw)
       ELSE /\ lRaised' = FALSE
            /\ UNCHANGED <<lRaw, lData, lTrend, lWindow>>
    /\ lLines' = IF ~lRaised' /\ lMarkers /\ marker THEN lLines + 1 ELSE lLines
    /\ UNCHANGED <<lTimer, lMarkers>>
    /\ UNCHANGED <<filterVars, procVars, quadVars, estVars, trendVars, statVars, envVars, recVars, tickVars, dashVars, cmpVars>>

NextLive ==
    \/ \E found \in BOOLEAN, markers \in BOOLEAN : LiveLoadStream(found, markers)
    \/ \E n \in {4, 5}, pw \in PsdPatterns, marker \in BOOLEAN :
          \E chunk \in LiveChunks(n) : LiveUpdate(chunk, pw, marker)

SpecLive == InitLive /\ [][NextLive]_vars

\* the last C rows of a chunk
LastRows(chunk, C) == SubSeq(chunk, Len(chunk) - C + 1, Len(chunk))

\* C4: an update() whose chunk has more rows than raw_buffer succeeds and
\* leaves in raw_buffer the last C rows of that chunk, in order.
C4_OversizedChunk ==
    (lTicks > 0 /\ Len(lChunk) > RawBufferRows) =>
        /\ ~lRaised
        /\ lRaw = LastRows(ForceFour(lChunk), RawBufferRows)

\* C19: on every live tick that refreshes the plot the estimator is run on the
\* most recent 1-second window of raw samples, SF = 256 rows, the window
\* length load_static_file uses.
C19_LiveRefreshWindow ==
    (lTicks > 0 /\ lChunk # <<>> /\ ~lRaised) =>
        /\ Len(lWindow) = window_size
        /\ lWindow = LastRows(lRaw, window_size)


(***************************************************************************)
(* class StatisticalAnalyzer (compare_stat.py).                            *)
(*                                                                         *)
(* Means and variances are exact rationals.  Standard deviations are not   *)
(* computed: |x - mean| <= k*std is decided as (x - mean)^2 <= k^2 * var.  *)
(* The p-value of Welch's t-test is 2*sf(|t|, df); sf is replaced by a     *)
(* function of t^2 and df that is 1 at t = 0, decreases in |t| and equals  *)
(* 0.05 at the two-sided 5% critical value of Student's t.                 *)
(***************************************************************************)
\* std_dev_threshold
std_dev_threshold == 3

\* (x - mean)^2
SquaredDeviation(d) == RMul(d, d)

\* (x - mean)^2 for every x of the series, given the mean
SquaredDeviationsFrom(series, mean) ==
    [i \in 1..Len(series) |-> SquaredDeviation(RSub(series[i], mean))]

\* (x - mean)^2 for every x of the series
SquaredDeviations(series) == SquaredDeviationsFrom(series, NpMean(series))

\* np.std(series) ** 2: the population variance, NaN for an empty series
NpVar(series) ==
    IF IsNaN(NpMean(series)) THEN NaN ELSE NpMean(SquaredDeviations(series))

\* the test with a threshold of 2 standard deviations
WithinThresholdTwo(x, mean, var) ==
    /\ ~IsNaN(x) /\ ~IsNaN(mean) /\ ~IsNaN(var)
    /\ RLeq(RMul(RSub(x, mean), RSub(x, mean)), RMul(R(2 * 2), var))

\* (series >= lower) & (series <= upper) at x; every comparison with NaN is false
WithinThreshold(x, mean, var) ==
    /\ ~IsNaN(x) /\ ~IsNaN(mean) /\ ~IsNaN(var)
    /\ RLeq(RMul(RSub(x, mean), RSub(x, mean)),
            RMul(R(std_dev_threshold * std_dev_threshold), var))

\* series[mask]: the values whose indices are in keep, in their order
RECURSIVE Select(_, _, _)
Select(series, keep, i) ==
    IF i > Len(series) THEN <<>>
    ELSE IF i \in keep THEN <<series[i]>> \o Select(series, keep, i + 1)
    ELSE Select(series, keep, i + 1)

\* StatisticalAnalyzer.remove_outliers given the mean and variance
CleanWith(series, mean, var) ==
    Select(series, {i \in 1..Len(series) : WithinThreshold(series[i], mean, var)}, 1)

\* StatisticalAnalyzer.remove_outliers
remove_outliers(series) == CleanWith(series, NpMean(series), NpVar(series))

\* the variance with ddof = 1 that ttest_ind uses, for a series of >= 2 values
SampleVar(series) ==
    RDiv(RSum(SquaredDeviations(series)), R(Len(series) - 1))

\* squares of the two-sided 5% critical values of Student's t for 1 .. 8
\* degrees of freedom, in hundredths
CritSquared == <<16145, 1851, 1013, 771, 661, 599, 559, 532>>

\* the squared critical value at a rational df >= 1: the one tabulated for
\* the integer part of df
CritSquaredAt(df) ==
    IF df[1] \div df[2] >= Len(CritSquared)
    THEN Norm(CritSquared[Len(CritSquared)], 100)
    ELSE Norm(CritSquared[df[1] \div df[2]], 100)

\* 2 * sf(|t|, df) from t^2 and df
TwoSidedP(t2, df) ==
    IF t2 = Zero THEN One
    ELSE IF RLess(One, RDiv(CritSquaredAt(df), RMul(R(20), t2))) THEN One
    ELSE RDiv(CritSquaredAt(df), RMul(R(20), t2))

\* Welch-Satterthwaite degrees of freedom from vn1 = v1/n1 and vn2 = v2/n2
WelchDf(vn1, n1, vn2, n2) ==
    RDiv(RMul(RAdd(vn1, vn2), RAdd(vn1, vn2)),
         RAdd(RDiv(RMul(vn1, vn1), R(n1 - 1)), RDiv(RMul(vn2, vn2), R(n2 - 1))))

\* p-value of the t statistic d / sqrt(vn1 + vn2): with both variances zero the
\* statistic is +-inf (p = 0) or, for equal means, NaN
WelchP(d, vn1, n1, vn2, n2) ==
    IF RAdd(vn1, vn2) = Zero
    THEN IF d = Zero THEN NaN ELSE Zero
    ELSE TwoSidedP(RDiv(RMul(d, d), RAdd(vn1, vn2)), WelchDf(vn1, n1, vn2, n2))

\* ttest_ind(x, y, equal_var=False).pvalue
ttest_ind(x, y) ==
    WelchP(RSub(NpMean(x), NpMean(y)),
           RDiv(SampleVar(x), R(Len(x))), Len(x),
           RDiv(SampleVar(y), R(Len(y))), Len(y))

\* pct_change with mean_b as the denominator
PctChangeOfB(mean_a, mean_b) ==
    IF mean_b # Zero THEN RMul(RDiv(RSub(mean_b, mean_a), mean_b), R(100)) ELSE Zero

\* ((mean_b - mean_a) / mean_a) * 100 if mean_a != 0 else 0
PctChange(mean_a, mean_b) ==
    IF mean_a # Zero THEN RMul(RDiv(RSub(mean_b, mean_a), mean_a), R(100)) ELSE Zero

\* p_val < 0.05
Significant(p_val) == ~IsNaN(p_val) /\ RLess(p_val, <<1, 20>>)

\* the conclusion sentence, as its parts
Conclusion(band_name, significant, mean_a, mean_b) ==
    IF significant
    THEN <<"File B has significantly ",
           IF RLess(mean_a, mean_b) THEN "HIGHER" ELSE "LOWER", " ", band_name, ".">>
    ELSE <<"No significant difference.">>

\* steps 2 and 3 of compare_bands on the cleaned series
CompareClean(band_name, clean_a, clean_b, p_val) ==
    [valid |-> TRUE,
     band_name |-> band_name,
     mean_a |-> NpMean(clean_a),
     mean_b |-> NpMean(clean_b),
     pct_change |-> PctChange(NpMean(clean_a), NpMean(clean_b)),
     p_value |-> p_val,
     significant |-> Significant(p_val),
     conclusion |-> Conclusion(band_name, Significant(p_val),
                               NpMean(clean_a), NpMean(clean_b)),
     clean_a |-> clean_a,
     clean_b |-> clean_b]

\* compare_bands after step 1, asking for 3 points
CompareCleanedThree(band_name, clean_a, clean_b) ==
    IF Len(clean_a) < 3 \/ Len(clean_b) < 3
    THEN [valid |-> FALSE, error |-> "Not enough data points after cleaning."]
    ELSE CompareClean(band_name, clean_a, clean_b, ttest_ind(clean_b, clean_a))

\* compare_bands after step 1
CompareCleaned(band_name, clean_a, clean_b) ==
    IF Len(clean_a) < 2 \/ Len(clean_b) < 2
    THEN [valid |-> FALSE, error |-> "Not enough data points after cleaning."]
    ELSE CompareClean(band_name, clean_a, clean_b, ttest_ind(clean_b, clean_a))

\* StatisticalAnalyzer.compare_bands
compare_bands(band_name, data_a, data_b) ==
    CompareCleaned(band_name, remove_outliers(data_a), remove_outliers(data_b))

(***************************************************************************)
(* SpecStat: one call of compare_bands on two short series, or one call of *)
(* remove_outliers on a series with an injected outlier.  The analyzer     *)
(* keeps no state between calls, so one call per behaviour is modelled.    *)
(***************************************************************************)
StatValues == {R(v) : v \in -1..MaxStatValue}
StatBand == "Alpha(8-13Hz)"

\* lo values -1, then mid values 0, then hi values 1
Arrange(lo, mid, hi) ==
    [i \in 1..(lo + mid + hi) |->
        IF i <= lo THEN R(-1) ELSE IF i <= lo + mid THEN Zero ELSE One]

\* series[::-1]
Reversed(series) == [i \in 1..Len(series) |-> series[Len(series) + 1 - i]]

\* n is the square of a natural number
IsSquare(n) == \E k \in 0..n : k * k = n

\* the natural number whose square is n
ISqrt(n) == CHOOSE k \in 0..n : k * k = n

\* the sorted series of 2 .. MaxOthers values among -1, 0, 1
SortedOthers ==
    UNION {UNION {{Arrange(lo, mid, n - lo - mid) : mid \in 0..(n - lo)} : lo \in 0..n} :
              n \in 2..MaxOthers}

\* the variance is the square of a positive rational
HasRationalStd(var) == var # Zero /\ IsSquare(var[1]) /\ IsSquare(var[2])

\* the series a 10-sigma outlier can be injected into: their standard deviation
\* is a positive rational
UsableOthers == {o \in SortedOthers : HasRationalStd(NpVar(o))}
OutlierOthers == UsableOthers \cup {Reversed(o) : o \in UsableOthers}

\* mean + 10 * std of the series
TenSigma(others) ==
    RAdd(NpMean(others),
         RMul(R(10), Norm(ISqrt(NpVar(others)[1]), ISqrt(NpVar(others)[2]))))

\* the series with value inserted so that it is at position idx
InsertAt(series, idx, value) ==
    SubSeq(series, 1, idx - 1) \o <<value>> \o SubSeq(series, idx, Len(series))

\* series that cleaning changes: one holding a NaN (all of it is discarded),
\* one holding a removable outlier
CleanedSeries ==
    {<<NaN, Zero, One>>, InsertAt(Arrange(5, 0, 5), 6, R(10))}
\* the series of 0 .. MaxStatLen values in ascending order
AscendingSeries ==
    {ser \in UNION {SeqsOfLen(StatValues, n) : n \in 0..MaxStatLen} :
        \A i \in 1..Len(ser) : \A j \in i..Len(ser) : RLeq(ser[i], ser[j])}

\* the series given to compare_bands: ascending, descending, or changed by
\* the cleaning
StatSeries ==
    AscendingSeries \cup {Reversed(ser) : ser \in AscendingSeries} \cup CleanedSeries

InitStat ==
    /\ FilterUnused /\ ProcUnused /\ QuadUnused /\ EstUnused /\ TrendUnused /\ LiveUnused /\ EnvUnused /\ RecUnused /\ TickUnused /\ DashUnused /\ CmpUnused
    /\ stA = <<>>
    /\ stB = <<>>
    /\ stResult = <<>>
    /\ roOthers = <<>>
    /\ roIndex = 0
    /\ roClean = <<>>

\* res = self.analyzer.compare_bands(band_name, raw_a, raw_b)
CompareBands(data_a, data_b) ==
    /\ stResult = <<>> /\ roIndex = 0
    /\ stA' = data_a
    /\ stB' = data_b
    /\ stResult' = compare_bands(StatBand, data_a, data_b)
    /\ UNCHANGED <<roOthers, roIndex, roClean>>
    /\ UNCHANGED <<filterVars, procVars, quadVars, estVars, trendVars, liveVars, envVars, recVars, tickVars, dashVars, cmpVars>>

\* remove_outliers on `others` with an outlier at mean + 10 std of them
\* inserted at position idx
RemoveInjected(others, idx) ==
    /\ stResult = <<>> /\ roIndex = 0
    /\ roOthers' = others
    /\ roIndex' = idx
    /\ roClean' = remove_outliers(InsertAt(others, idx, TenSigma(others)))
    /\ UNCHANGED <<stA, stB, stResult>>
    /\ UNCHANGED <<filterVars, procVars, quadVars, estVars, trendVars, liveVars, envVars, recVars, tickVars, dashVars, cmpVars>>

NextStat ==
    \/ \E data_a \in StatSeries, data_b \in StatSeries : CompareBands(data_a, data_b)
    \/ \E others \in OutlierOthers : \E idx \in 1..(Len(others) + 1) :
          RemoveInjected(others, idx)

SpecStat == InitStat /\ [][NextStat]_vars

\* -1, 0 or 1
Sign(x) == IF RLess(x, Zero) THEN -1 ELSE IF RLess(Zero, x) THEN 1 ELSE 0

\* C11: comparing (A, B) and (B, A) gives the same p_value and significant
\* flag, pct_change values of opposite sign and, when significant, opposite
\* direction words.
C11_ComparatorSymmetry ==
    (stResult # <<>> /\ stResult.valid) =>
        /\ compare_bands(StatBand, stB, stA).valid
        /\ compare_bands(StatBand, stB, stA).p_value = stResult.p_value
        /\ compare_bands(StatBand, stB, stA).significant = stResult.significant
        /\ Sign(compare_bands(StatBand, stB, stA).pct_change) = -Sign(stResult.pct_change)
        /\ stResult.significant =>
              compare_bands(StatBand, stB, stA).conclusion[2] # stResult.conclusion[2]

\* the series remove_outliers was given after the injection
Injected == InsertAt(roOthers, roIndex, TenSigma(roOthers))

\* C12 as stated: for every N >= 2, remove_outliers returns the series
\* without the injected point: that point is removed, every other is kept.
C12_OutlierRemoved ==
    roIndex > 0 => roClean = roOthers

\* C12 as the code behaves: with 10 or more other values the injected point is
\* removed, and what is returned is, in order, the other values within 3
\* standard deviations of the mean of the whole series; with fewer than 10
\* other values nothing is removed, the injected point included.
C12_OutlierRemovedFromTen ==
    roIndex > 0 =>
        IF Len(roOthers) >= 10
        THEN roClean = CleanWith(roOthers, NpMean(Injected), NpVar(Injected))
        ELSE roClean = Injected

\* an outlier injected in the middle of 10 or more values has been removed and
\* all the others kept
C12_Witness ==
    /\ roIndex > 1 /\ roIndex <= Len(roOthers)
    /\ Len(roOthers) >= 10
    /\ roClean = roOthers

\* some cleaned series of the last call has fewer than 2 points
TooFewPoints == Len(remove_outliers(stA)) < 2 \/ Len(remove_outliers(stB)) < 2

\* the fields of a valid result that the comparison reports
ReportedFields ==
    {"valid", "band_name", "mean_a", "mean_b", "pct_change", "p_value",
     "significant", "conclusion"}

\* C13 as stated: compare_bands returns {valid: false, error: "insufficient
\* data"} and no statistics exactly when a cleaned series has fewer than 2
\* points, and otherwise a valid result carrying all the reported fields.
C13_ValidityCheck ==
    stResult # <<>> =>
        IF TooFewPoints
        THEN stResult = [valid |-> FALSE, error |-> "insufficient data"]
        ELSE stResult.valid /\ ReportedFields \subseteq DOMAIN stResult

\* C13 as the code behaves: the same, the error text being "Not enough data
\* points after cleaning."
C13_ValidityCheckText ==
    stResult # <<>> =>
        IF TooFewPoints
        THEN stResult = [valid |-> FALSE,
                         error |-> "Not enough data points after cleaning."]
        ELSE stResult.valid /\ ReportedFields \subseteq DOMAIN stResult

\* a call where only one series is too short, and only once cleaned, was
\* reported not valid
C13_Witness ==
    /\ stResult # <<>> /\ ~stResult.valid
    /\ Len(remove_outliers(stA)) >= 2
    /\ Len(stB) >= 2 /\ Len(remove_outliers(stB)) < 2

\* C14: in every valid result pct_change is (mean_b - mean_a) / mean_a * 100
\* on the cleaned series, 0 when mean_a = 0, and it is a defined number: no
\* division by zero was made.
C14_PercentChange ==
    (stResult # <<>> /\ stResult.valid) =>
        /\ stResult.pct_change[2] # 0
        /\ stResult.mean_a = NpMean(remove_outliers(stA))
        /\ stResult.mean_b = NpMean(remove_outliers(stB))
        /\ IF NpMean(remove_outliers(stA)) = Zero
           THEN stResult.pct_change = Zero
           ELSE stResult.pct_change =
                    RMul(RDiv(RSub(NpMean(remove_outliers(stB)),
                                   NpMean(remove_outliers(stA))),
                              NpMean(remove_outliers(stA))), R(100))

\* a valid result with mean_a = 0 after cleaning and mean_b # 0 reports a
\* change of 0
C14_Witness ==
    /\ stResult # <<>> /\ stResult.valid
    /\ stResult.mean_a = Zero /\ stResult.mean_b # Zero
    /\ stResult.pct_change = Zero
    /\ stResult.clean_a # stA

(***************************************************************************)
(* The envelope visualizers: SmoothEnvelopeVisualizer (muse_envelope.py),  *)
(* LazyLogVisualizer (muse_lazy_log.py) and the 'avg' SignalProcessor of   *)
(* Quadrants, each fed the global signal of one stream.                    *)
(***************************************************************************)
\* readings in microvolts: a silent level, a small one and a large one
EnvLevels == {0, 1, 9}

EnvFrames(n) == {FrameOf(v, n) : v \in EnvLevels}

\* what pull_chunk returns: at most max_samples = 1024 frames, fewer than the
\* display buffer holds (SF * WINDOW_SECONDS = 7680)
EnvChunks(n) == UNION {SeqsOfLen(EnvFrames(n), j) : j \in 0..BUFFER_SIZE}

EnvKinds == {"quadrants", "muse_envelope", "muse_lazy_log"}

\* SmoothEnvelopeVisualizer.__init__: bp_filters, lp_filters, buffers
SmoothEnvelopeVisualizer ==
    [bp      |-> [i \in Bands |-> Filter(create_bandpass_filter)],
     lp      |-> [i \in Bands |-> Filter(create_lowpass_filter)],
     buffers |-> [i \in Bands |-> NpZeros(BUFFER_SIZE)]]

\* LazyLogVisualizer.__init__: bp_filters, lp_filters, buffers
LazyLogVisualizer ==
    [bp      |-> [i \in Bands |-> Filter(create_bandpass(i))],
     lp      |-> [i \in Bands |-> Filter(create_lowpass)],
     buffers |-> [i \in Bands |-> NpZeros(BUFFER_SIZE)]]

InitVisualizer(kind) ==
    IF kind = "muse_envelope" THEN SmoothEnvelopeVisualizer
    ELSE IF kind = "muse_lazy_log" THEN LazyLogVisualizer
    ELSE SignalProcessor

\* the end of a loop body: the filters are kept, the buffer is rolled and the
\* envelope stored
StoreSmooth(p, i, n_new, a, c) ==
    [p EXCEPT !.bp[i] = a.f, !.lp[i] = c.f,
              !.buffers[i] = TailAssign(NpRoll(@, -n_new), n_new, c.out)]

\* SmoothEnvelopeVisualizer.update, steps 2 and 3 of the loop body for band i:
\* rectify, smooth
SmoothEnvelopeSteps(p, i, n_new, a) ==
    StoreSmooth(p, i, n_new, a, FilterProcess(p.lp[i], NpAbs(a.out)))

\* SmoothEnvelopeVisualizer.update, the loop body for band i
SmoothEnvelopeBand(p, i, global_signal) ==
    SmoothEnvelopeSteps(p, i, Len(global_signal),
                        FilterProcess(p.bp[i], global_signal))

\* LazyLogVisualizer.update, steps 2 to 4 of the loop body for band i:
\* rectify, logarithm, smooth
LazyLogSteps(p, i, n_new, a) ==
    StoreSmooth(p, i, n_new, a, FilterProcess(p.lp[i], NpLog1p(NpAbs(a.out))))

\* LazyLogVisualizer.update, the loop body for band i
LazyLogBand(p, i, global_signal) ==
    LazyLogSteps(p, i, Len(global_signal), FilterProcess(p.bp[i], global_signal))

\* the loop `for i in range(len(BANDS))` of a visualizer's update from band i on
RECURSIVE VisualizerBandsFrom(_, _, _, _)
VisualizerBandsFrom(kind, p, global_signal, i) ==
    IF i > NumBands THEN p
    ELSE VisualizerBandsFrom(kind,
             IF kind = "muse_envelope" THEN SmoothEnvelopeBand(p, i, global_signal)
             ELSE LazyLogBand(p, i, global_signal),
             global_signal, i + 1)

\* what update() does to the pipelines with a non-empty chunk
VisualizerUpdate(kind, p, global_signal) ==
    IF kind = "quadrants" THEN process_and_store(p, global_signal, NoEnvs).p
    ELSE VisualizerBandsFrom(kind, p, global_signal, 1)

InitEnv ==
    /\ FilterUnused /\ ProcUnused /\ QuadUnused /\ EstUnused /\ TrendUnused /\ LiveUnused /\ StatUnused /\ RecUnused /\ TickUnused /\ DashUnused /\ CmpUnused
    /\ vKind \in EnvKinds
    /\ vChannels \in {4, 5}
    /\ vProc = InitVisualizer(vKind)
    /\ vSeen = <<>>

\* update(), one timer tick: an empty chunk is skipped, a chunk is cut to four
\* columns, averaged over the sensors and sent through every band's pipeline
EnvUpdate(chunk) ==
    /\ Len(vSeen) + Len(chunk) <= MaxEnvFrames
    /\ IF chunk # <<>>
       THEN /\ vProc' = VisualizerUpdate(vKind, vProc, RowMeans(ForceFour(chunk)))
            /\ vSeen' = vSeen \o RowMeans(ForceFour(chunk))
       ELSE UNCHANGED <<vProc, vSeen>>
    /\ UNCHANGED <<vKind, vChannels>>
    /\ UNCHANGED <<filterVars, procVars, quadVars, estVars, trendVars, liveVars, statVars, recVars, tickVars, dashVars, cmpVars>>

NextEnv == \E chunk \in EnvChunks(vChannels) : EnvUpdate(chunk)

SpecEnv == InitEnv /\ [][NextEnv]_vars

\* the designs the pipeline of band i of a visualizer is built from
BandpassDesign(kind, i) ==
    IF kind = "muse_envelope" THEN create_bandpass_filter ELSE create_bandpass(i)
LowpassDesign(kind) ==
    IF kind = "muse_envelope" THEN create_lowpass_filter ELSE create_lowpass

\* lowpass(log(1 + |bandpass(x)|)) with fresh filters of the two designs
LogEnvelope(bp_design, lp_design, x) ==
    FilterProcess(Filter(lp_design),
                  NpLog1p(NpAbs(FilterProcess(Filter(bp_design), x).out))).out

\* the values a display buffer holds of the samples processed so far
StoredCount == IF Len(vSeen) < BUFFER_SIZE THEN Len(vSeen) ELSE BUFFER_SIZE

\* C16: in every envelope pipeline, for each band, the values stored for the
\* signal processed so far are lowpass(log(1 + |bandpass(x)|)), computed with
\* the band's own bandpass and lowpass instances.
C16_EnvelopeStages ==
    \A i \in Bands :
        LastC(vProc.buffers[i], StoredCount) =
            LastC(LogEnvelope(BandpassDesign(vKind, i), LowpassDesign(vKind), vSeen),
                  StoredCount)

\* C17: every value held in every per-band envelope display buffer is >= 0,
\* in every envelope pipeline variant.
C17_NonNegativeEnvelope ==
    \A i \in Bands : \A j \in 1..Len(vProc.buffers[i]) :
        RLeq(Zero, vProc.buffers[i][j])

(***************************************************************************)
(* Quadrants: what its processors hold against all it has pulled.          *)
(***************************************************************************)
\* band i of processor p holds what the lowpass pass c left: its state, and
\* the end of the envelope behind the initial zeros
ChainHolds(p, i, c) ==
    /\ p.lp[i] = c.f
    /\ p.buffers[i] = LastC(NpZeros(BUFFER_SIZE) \o c.out, BUFFER_SIZE)

\* band i of processor p holds what the bandpass pass a, and one pass of a new
\* processor's lowpass over log(1 + |a|), left
ChainAfterBandpass(p, i, a) ==
    /\ p.bp[i] = a.f
    /\ ChainHolds(p, i, FilterProcess(SignalProcessor.lp[i], NpLog1p(NpAbs(a.out))))

\* every band of processor p holds what one pass of a new processor's filters
\* over the signal x leaves
ProcessorOnce(p, x) ==
    \A i \in Bands :
        ChainAfterBandpass(p, i, FilterProcess(SignalProcessor.bp[i], x))

\* C20: every chunk a view pulled has been fed to each band filter chain of
\* each of its processors exactly once and in the order pulled: each filter is
\* in the state one pass over everything pulled leaves it in, and each buffer
\* holds the end of the envelope of that one pass.
C20_ExactlyOnceInOrder ==
    qProcessors # <<>> =>
        \A k \in PlotKeys : ProcessorOnce(qProcessors[k], SignalFor(k, qPulled))

\* chunks pulled over two connections, the first frames differing, so that
\* order matters and more has been pulled than the buffers hold
C20_Witness ==
    /\ qInlet = 2 /\ qSince # <<>>
    /\ Len(qPulled) > Len(qSince)
    /\ Len(qPulled) > BUFFER_SIZE
    /\ qPulled[1] # qPulled[2]

\* C24: in every valid, significant result pct_change > 0 exactly when the
\* conclusion says HIGHER and pct_change < 0 exactly when it says LOWER.
C24_DirectionAgrees ==
    (stResult # <<>> /\ stResult.valid /\ stResult.significant) =>
        /\ RLess(Zero, stResult.pct_change) <=> stResult.conclusion[2] = "HIGHER"
        /\ RLess(stResult.pct_change, Zero) <=> stResult.conclusion[2] = "LOWER"

\* C25: for every non-empty window the estimator returns, without raising, a
\* defined number for each band, in both aggregation modes.
C25_DefinedOutput ==
    (estCall.fn # "none" /\ estCall.rows > 0 /\ estCall.cols > 0) =>
        /\ ~estResult.raised
        /\ \A b \in BAND_NAMES : ~IsNaN(estResult.powers[b])

\* every value of the series is a number
IsFinite(ser) == \A i \in 1..Len(ser) : ~IsNaN(ser[i])

\* sub can be obtained from ser by deleting values, the order being kept
RECURSIVE IsSubsequence(_, _)
IsSubsequence(sub, ser) ==
    IF sub = <<>> THEN TRUE
    ELSE IF ser = <<>> THEN FALSE
    ELSE IF Head(sub) = Head(ser) THEN IsSubsequence(Tail(sub), Tail(ser))
    ELSE IsSubsequence(sub, Tail(ser))

\* cleaning a series of N >= 2 numbers removed fewer than N/9 of them, left
\* at least 2 and kept their order
NotStarved(ser, clean) ==
    (Len(ser) >= 2 /\ IsFinite(ser)) =>
        /\ 9 * (Len(ser) - Len(clean)) < Len(ser)
        /\ Len(clean) >= 2
        /\ IsSubsequence(clean, ser)

\* C26: with k = 3, remove_outliers removes fewer than N/9 of the N >= 2
\* finite values of a series and returns at least 2 of them in their order;
\* compare_bands reports a not-valid result for finite series only when one
\* of them has fewer than 2 values.
C26_NoStarvation ==
    /\ stResult # <<>> =>
          /\ NotStarved(stA, remove_outliers(stA))
          /\ NotStarved(stB, remove_outliers(stB))
          /\ (IsFinite(stA) /\ IsFinite(stB) /\ ~stResult.valid) =>
                 (Len(stA) < 2 \/ Len(stB) < 2)
    /\ roIndex > 0 => NotStarved(Injected, roClean)

\* a series of more than 9 values lost one of them to the cleaning
C26_Witness ==
    /\ roIndex > 0
    /\ Len(Injected) > 9
    /\ Len(roClean) = Len(Injected) - 1

\* ---------------------------------------------------------------------
\* muse_recorder.py: MuseRecorder, a controlling thread calling start()
\* and stop() and the record threads start() spawns
\* ---------------------------------------------------------------------

\* number of record threads start() may spawn
MaxRecThreads == 2

\* number of rows the stream delivers
MaxRecRows == 3

\* number of rows one pull_chunk returns at most
MaxRecChunk == 2

\* number of start() and stop() calls the controlling thread makes
MaxRecCalls == 4

RecThreadIds == 1..MaxRecThreads

\* columns = ['TimeStamp', 'TP9', 'AF7', 'AF8', 'TP10']
columns == <<"TimeStamp", "TP9", "AF7", "AF8", "TP10">>

NoFile == [exists |-> FALSE, lines |-> <<>>]

\* a file of that name left by something else
ForeignFile == [exists |-> TRUE, lines |-> <<[header |-> FALSE, cells |-> <<>>]>>]

\* the lines df.to_csv writes: the column names when header is set, then one
\* line per row
CsvLines(data, header) ==
    (IF header THEN <<[header |-> TRUE, cells |-> columns]>> ELSE <<>>)
        \o [i \in 1..Len(data) |-> [header |-> FALSE, cells |-> data[i]]]

\* the rows of one pulled chunk: chunk_np[:, :4] when there are more than four
\* columns, then [current_time] + chunk_np[i].tolist() per sample
RecordRows(chunk, current_time) ==
    LET chunk_np == ForceFour(chunk)
    IN  [i \in 1..Len(chunk_np) |-> <<current_time>> \o chunk_np[i]]

\* _save_to_csv with the header written on every call
SaveToCsvHeaderAlways(file, data) ==
    [exists |-> TRUE, lines |-> file.lines \o CsvLines(data, TRUE)]

\* _save_to_csv(data, columns, mode='a'): header = not os.path.exists(filename)
SaveToCsv(file, data) ==
    LET header == ~file.exists
    IN  [exists |-> TRUE, lines |-> file.lines \o CsvLines(data, header)]

\* what the stream hands to the next pull_chunk: the rows it has not delivered
\* yet, at most MaxRecChunk of them, possibly none
StreamChunks(n) ==
    {[i \in 1..len |-> FrameOf(Len(rPulled) + i, n)] :
        len \in {l \in 0..MaxRecChunk : Len(rPulled) + l <= MaxRecRows}}

NewThread == [pc |-> "resolve", n |-> 0, recorded_data |-> <<>>, saves |-> 0]

Spawned == {t \in RecThreadIds : rThreads[t].pc # "none"}

InitRec ==
    /\ FilterUnused /\ ProcUnused /\ QuadUnused /\ EstUnused /\ TrendUnused /\ LiveUnused /\ StatUnused /\ EnvUnused /\ TickUnused /\ DashUnused /\ CmpUnused
    /\ rRunning = FALSE
    /\ rThread = 0
    /\ rThreads = [t \in RecThreadIds |-> [NewThread EXCEPT !.pc = "none"]]
    /\ rCtl = "idle"
    /\ rLast = "init"
    /\ rFile \in {NoFile, ForeignFile}
    /\ rFile0 = rFile
    /\ rPulled = <<>>
    /\ rCalls = 0

RecOthersUnchanged ==
    UNCHANGED <<filterVars, procVars, quadVars, estVars, trendVars, liveVars, statVars, envVars, tickVars, dashVars, cmpVars>>

\* start() without the test of self.running
RecStartUnguarded ==
    /\ rCtl = "idle"
    /\ rCalls < MaxRecCalls
    /\ Cardinality(Spawned) < MaxRecThreads
    /\ rCalls' = rCalls + 1
    /\ rRunning' = TRUE
    /\ rThread' = Cardinality(Spawned) + 1
    /\ rThreads' = [rThreads EXCEPT ![Cardinality(Spawned) + 1] = NewThread]
    /\ rLast' = "start"
    /\ UNCHANGED <<rCtl, rFile, rFile0, rPulled>>
    /\ RecOthersUnchanged

\* start(): returns at once when self.running, else sets it and starts a new
\* daemon thread on _record_loop
RecStart ==
    /\ rCtl = "idle"
    /\ rCalls < MaxRecCalls
    /\ rCalls' = rCalls + 1
    /\ IF rRunning
       THEN /\ rLast' = "start_noop"
            /\ UNCHANGED <<rRunning, rThread, rThreads>>
       ELSE /\ Cardinality(Spawned) < MaxRecThreads
            /\ rRunning' = TRUE
            /\ rThread' = Cardinality(Spawned) + 1
            /\ rThreads' = [rThreads EXCEPT ![Cardinality(Spawned) + 1] = NewThread]
            /\ rLast' = "start"
    /\ UNCHANGED <<rCtl, rFile, rFile0, rPulled>>
    /\ RecOthersUnchanged

\* stop(), first half: self.running = False, then join the thread if there is one
RecStopBegin ==
    /\ rCtl = "idle"
    /\ rCalls < MaxRecCalls
    /\ rCalls' = rCalls + 1
    /\ rRunning' = FALSE
    /\ IF rThread # 0
       THEN /\ rCtl' = "joining"
            /\ UNCHANGED rLast
       ELSE /\ rLast' = "stop"
            /\ UNCHANGED rCtl
    /\ UNCHANGED <<rThread, rThreads, rFile, rFile0, rPulled>>
    /\ RecOthersUnchanged

\* stop(), second half: self.thread.join() returns once that thread has ended
RecStopJoin ==
    /\ rCtl = "joining"
    /\ rThreads[rThread].pc = "done"
    /\ rCtl' = "idle"
    /\ rLast' = "stop"
    /\ UNCHANGED <<rRunning, rThread, rThreads, rFile, rFile0, rPulled, rCalls>>
    /\ RecOthersUnchanged

\* _record_loop: resolve_byprop('type', 'EEG', timeout=5), then the inlet
RecResolve(t, found, n) ==
    /\ rThreads[t].pc = "resolve"
    /\ rThreads' = [rThreads EXCEPT ![t].pc = IF found THEN "test" ELSE "clear",
                                    ![t].n = IF found THEN n ELSE 0]
    /\ UNCHANGED <<rRunning, rThread, rCtl, rLast, rFile, rFile0, rPulled, rCalls>>
    /\ RecOthersUnchanged

\* _record_loop: no stream found: self.running = False; return
RecNoStream(t) ==
    /\ rThreads[t].pc = "clear"
    /\ rRunning' = FALSE
    /\ rThreads' = [rThreads EXCEPT ![t].pc = "done"]
    /\ UNCHANGED <<rThread, rCtl, rLast, rFile, rFile0, rPulled, rCalls>>
    /\ RecOthersUnchanged

\* _record_loop: while self.running
RecTest(t) ==
    /\ rThreads[t].pc = "test"
    /\ rThreads' = [rThreads EXCEPT ![t].pc = IF rRunning THEN "pull" ELSE "final"]
    /\ UNCHANGED <<rRunning, rThread, rCtl, rLast, rFile, rFile0, rPulled, rCalls>>
    /\ RecOthersUnchanged

\* _record_loop: pull_chunk(timeout=0.2), and the rows of a non-empty chunk
\* appended to recorded_data
RecPull(t) ==
    /\ rThreads[t].pc = "pull"
    /\ \E chunk \in StreamChunks(rThreads[t].n) :
           LET rows == IF chunk # <<>> THEN RecordRows(chunk, Len(rPulled) + 1) ELSE <<>>
           IN  /\ rThreads' = [rThreads EXCEPT
                                  ![t].pc = "flush",
                                  ![t].recorded_data = rThreads[t].recorded_data \o rows]
               /\ rPulled' = rPulled \o rows
    /\ UNCHANGED <<rRunning, rThread, rCtl, rLast, rFile, rFile0, rCalls>>
    /\ RecOthersUnchanged

\* the periodic flush that keeps the rows it wrote
RecFlushKeep(t, due) ==
    /\ rThreads[t].pc = "flush"
    /\ IF due /\ Len(rThreads[t].recorded_data) > 0
       THEN /\ rFile' = SaveToCsv(rFile, rThreads[t].recorded_data)
            /\ rThreads' = [rThreads EXCEPT ![t].pc = "test",
                                            ![t].saves = rThreads[t].saves + 1]
       ELSE /\ rThreads' = [rThreads EXCEPT ![t].pc = "test"]
            /\ UNCHANGED rFile
    /\ UNCHANGED <<rRunning, rThread, rCtl, rLast, rFile0, rPulled, rCalls>>
    /\ RecOthersUnchanged

\* _record_loop: the periodic flush (more than 3.0 s since the last one and
\* rows at hand: save them, recorded_data = []), then the sleep
RecFlush(t, due) ==
    /\ rThreads[t].pc = "flush"
    /\ IF due /\ Len(rThreads[t].recorded_data) > 0
       THEN /\ rFile' = SaveToCsv(rFile, rThreads[t].recorded_data)
            /\ rThreads' = [rThreads EXCEPT ![t].pc = "test",
                                            ![t].recorded_data = <<>>,
                                            ![t].saves = rThreads[t].saves + 1]
       ELSE /\ rThreads' = [rThreads EXCEPT ![t].pc = "test"]
            /\ UNCHANGED rFile
    /\ UNCHANGED <<rRunning, rThread, rCtl, rLast, rFile0, rPulled, rCalls>>
    /\ RecOthersUnchanged

\* _record_loop: the final flush after the loop, then the thread ends and its
\* local recorded_data with it
RecFinal(t) ==
    /\ rThreads[t].pc = "final"
    /\ IF Len(rThreads[t].recorded_data) > 0
       THEN /\ rFile' = SaveToCsv(rFile, rThreads[t].recorded_data)
            /\ rThreads' = [rThreads EXCEPT ![t].pc = "done",
                                            ![t].recorded_data = <<>>,
                                            ![t].saves = rThreads[t].saves + 1]
       ELSE /\ rThreads' = [rThreads EXCEPT ![t].pc = "done"]
            /\ UNCHANGED rFile
    /\ UNCHANGED <<rRunning, rThread, rCtl, rLast, rFile0, rPulled, rCalls>>
    /\ RecOthersUnchanged

NextRec ==
    \/ RecStart
    \/ RecStopBegin
    \/ RecStopJoin
    \/ \E t \in RecThreadIds, found \in BOOLEAN, n \in {4, 5} : RecResolve(t, found, n)
    \/ \E t \in RecThreadIds : RecNoStream(t)
    \/ \E t \in RecThreadIds : RecTest(t)
    \/ \E t \in RecThreadIds : RecPull(t)
    \/ \E t \in RecThreadIds, due \in BOOLEAN : RecFlush(t, due)
    \/ \E t \in RecThreadIds : RecFinal(t)

SpecRec == InitRec /\ [][NextRec]_vars

\* the lines the recorder has added to the file it found
Written == SubSeq(rFile.lines, Len(rFile0.lines) + 1, Len(rFile.lines))

HeaderRows(lines) == {i \in 1..Len(lines) : lines[i].header}

\* the data rows among the lines the recorder has added
WrittenRows ==
    LET rows == SelectSeq(Written, LAMBDA line : ~line.header)
    IN  [i \in 1..Len(rows) |-> rows[i].cells]

\* C23: a flush writes the header row only when it finds the file not yet
\* existing, so a file the recorder created has exactly one header row, its
\* first line, and a file it found gets none
C23_OneHeader ==
    /\ (rFile0.exists) => HeaderRows(Written) = {}
    /\ (~rFile0.exists /\ rFile.exists) => HeaderRows(rFile.lines) = {1}

C23_Witness ==
    /\ ~rFile0.exists
    /\ \E t \in RecThreadIds : rThreads[t].saves >= 2
    /\ Len(rFile.lines) = MaxRecRows + 1

\* the rows the record threads hold that no flush has written yet
RECURSIVE Unwritten(_)
Unwritten(t) ==
    IF t > MaxRecThreads THEN <<>> ELSE rThreads[t].recorded_data \o Unwritten(t + 1)

Terminated(t) == rThreads[t].pc \in {"none", "done"}

\* C27: the rows the file has received followed by the rows still held are
\* exactly the rows pulled, in arrival order, each once; and when stop() has
\* returned, every record thread has ended and every pulled row is in the file
C27_NothingLostOrDuplicated ==
    /\ WrittenRows \o Unwritten(1) = rPulled
    /\ (rLast = "stop" /\ rCtl = "idle") =>
           /\ \A t \in RecThreadIds : Terminated(t)
           /\ WrittenRows = rPulled

C27_Witness ==
    /\ rLast = "stop"
    /\ rCtl = "idle"
    /\ Len(rPulled) = MaxRecRows
    /\ rThread = MaxRecThreads
    /\ \A t \in RecThreadIds : rThreads[t].saves >= 1
    /\ \E t \in RecThreadIds : rThreads[t].saves >= 2

\* C30: under every interleaving of start() and stop() with the steps of the
\* record threads, only the thread started last can be in _record_loop: every
\* other thread has ended, and a start() that finds the recorder running
\* starts none
C30_SingleLoop ==
    \A t \in RecThreadIds : t # rThread => Terminated(t)

C30_Witness ==
    /\ rLast = "start_noop"
    /\ rThread = MaxRecThreads
    /\ rThreads[rThread].pc = "flush"
    /\ rThreads[rThread].recorded_data # <<>>
    /\ \A t \in RecThreadIds : t # rThread => rThreads[t].pc = "done"

\* ---------------------------------------------------------------------
\* One tick of each component that pulls chunks from the EEG stream:
\* Quadrants.update, LiveMuseGraph.update and the body of the recorder's
\* loop, as functions of the component's buffers and the pulled chunk
\* ---------------------------------------------------------------------

\* number of ticks followed
MaxTicks == 2

TickViews == {"quadrants", "live_graph", "muse_recorder"}

\* Quadrants.update on the processors and curves of the view
QuadrantsUpdate(st, chunk) ==
    IF chunk # <<>>
    THEN LET procs == UpdateProcessors(st.processors, ForceFour(chunk))
         IN  [processors |-> procs,
              curves     |-> [k \in PlotKeys |-> procs[k].buffers],
              raised     |-> FALSE]
    ELSE [st EXCEPT !.raised = FALSE]

\* steps 2 and 3 of LiveMuseGraph.update: the estimator on the raw buffer, then
\* the data buffers and their trend lines
LiveGraphPlot(st, raw_buffer, pw) ==
    LET new_powers == LiveCalculateBandPowers(Len(raw_buffer), 4, pw, "raise").powers
        data == [b \in BAND_NAMES |-> ShiftAppend(st.data_buffers[b], new_powers[b])]
    IN  [raw_buffer   |-> raw_buffer,
         data_buffers |-> data,
         trend        |-> [b \in BAND_NAMES |-> RollingRight(data[b], AVERAGE_TRENDLINE_PERIOD)],
         raised       |-> FALSE]

\* LiveMuseGraph.update that goes on to the estimator and the plots when the
\* chunk is empty
LiveGraphUpdateAlways(st, chunk, pw) ==
    IF chunk # <<>>
    THEN LET chunk_np == ForceFour(chunk)
             rolled == NpRoll(st.raw_buffer, -Len(chunk_np))
         IN  IF TailAssignOk(rolled, Len(chunk_np), chunk_np)
             THEN LiveGraphPlot(st, TailAssign(rolled, Len(chunk_np), chunk_np), pw)
             ELSE [st EXCEPT !.raw_buffer = rolled, !.raised = TRUE]
    ELSE LiveGraphPlot(st, st.raw_buffer, pw)

\* LiveMuseGraph.update on the raw buffer, the data buffers and the trend lines
LiveGraphUpdate(st, chunk, pw) ==
    IF chunk # <<>>
    THEN LET chunk_np == ForceFour(chunk)
             rolled == NpRoll(st.raw_buffer, -Len(chunk_np))
         IN  IF TailAssignOk(rolled, Len(chunk_np), chunk_np)
             THEN LiveGraphPlot(st, TailAssign(rolled, Len(chunk_np), chunk_np), pw)
             ELSE [st EXCEPT !.raw_buffer = rolled, !.raised = TRUE]
    ELSE [st EXCEPT !.raised = FALSE]

\* the body of the recorder's loop up to the flush test
RecorderPull(st, chunk, current_time) ==
    IF chunk # <<>>
    THEN [recorded_data |-> st.recorded_data \o RecordRows(chunk, current_time),
          raised        |-> FALSE]
    ELSE [st EXCEPT !.raised = FALSE]

\* the component as its constructor leaves it
ViewInit(view) ==
    IF view = "quadrants"
    THEN [processors |-> InitProcessors, curves |-> InitCurves, raised |-> FALSE]
    ELSE IF view = "live_graph"
    THEN [raw_buffer   |-> NpZeros2(RawBufferRows),
          data_buffers |-> [b \in BAND_NAMES |-> [i \in 1..DataBufferSize |-> Zero]],
          trend        |-> [b \in BAND_NAMES |-> <<>>],
          raised       |-> FALSE]
    ELSE [recorded_data |-> <<>>, raised |-> FALSE]

ViewUpdate(view, st, input, current_time) ==
    IF view = "quadrants" THEN QuadrantsUpdate(st, input.chunk)
    ELSE IF view = "live_graph" THEN LiveGraphUpdate(st, input.chunk, input.pw)
    ELSE RecorderPull(st, input.chunk, current_time)

\* how many frames a tick of the component pulls: none, or the frames of a tick
TickLengths(view) ==
    IF view = "quadrants" THEN {0, 1, MaxViewFrames}
    ELSE IF view = "live_graph" THEN {0, SF \div UPDATE_FPS}
    ELSE {0, 1, MaxRecChunk}

\* what a tick of the component can pull from a stream of n channels; the
\* frames of a chunk differ from row to row
TickChunks(view, n) ==
    {[i \in 1..len |-> FrameOf((v + i) % (MaxFrameValue + 1), n)] :
        len \in TickLengths(view), v \in 0..MaxFrameValue}

\* what welch finds in the raw buffer of the live graph: louder left sensors
TickPsd(view) ==
    IF view = "live_graph"
    THEN [s \in 1..MaxDim |-> [b \in BAND_NAMES |-> IF s <= 2 THEN R(b) ELSE Zero]]
    ELSE <<>>

InitTick ==
    /\ FilterUnused /\ ProcUnused /\ QuadUnused /\ EstUnused /\ TrendUnused /\ LiveUnused /\ StatUnused /\ EnvUnused /\ RecUnused /\ DashUnused /\ CmpUnused
    /\ tView \in TickViews
    /\ tInput = [chunk |-> <<>>, pw |-> <<>>]
    /\ tBefore = ViewInit(tView)
    /\ tAfter = tBefore
    /\ tTicks = 0

Tick(n) ==
    /\ tTicks < MaxTicks
    /\ tTicks' = tTicks + 1
    /\ \E chunk \in TickChunks(tView, n) :
           tInput' = [chunk |-> chunk, pw |-> TickPsd(tView)]
    /\ tBefore' = tAfter
    /\ tAfter' = ViewUpdate(tView, tAfter, tInput', tTicks')
    /\ UNCHANGED tView
    /\ UNCHANGED <<filterVars, procVars, quadVars, estVars, trendVars, liveVars, statVars, envVars, recVars, dashVars, cmpVars>>

NextTick == \E n \in {4, 5} : Tick(n)

SpecTick == InitTick /\ [][NextTick]_vars

\* the first four channels of every frame, in their order
FirstFour(chunk) == [r \in 1..Len(chunk) |-> [c \in 1..4 |-> chunk[r][c]]]

C22_EmptyTickNoOp ==
    (tTicks > 0 /\ tInput.chunk = <<>> /\ tView # "muse_recorder") => tAfter = tBefore

C22_Witness ==
    /\ tView = "quadrants"
    /\ tTicks = MaxTicks
    /\ tInput.chunk = <<>>
    /\ tAfter.processors # InitProcessors

\* ---------------------------------------------------------------------
\* dashboard.py: MuseMasterLauncher, the record button, Load & Play and
\* Switch to Live
\* ---------------------------------------------------------------------

\* number of recordings the operator starts
MaxRecordings == 3

\* number of recordings in the file list
MaxPlayFiles == 3

StartRecordingText == <<"Start Recording", 0>>
RecordingDisabledText == <<"Recording Disabled", 0>>
RecordingText(k) == <<"Recording...", k>>

InitDash ==
    /\ FilterUnused /\ ProcUnused /\ QuadUnused /\ EstUnused /\ TrendUnused /\ LiveUnused /\ StatUnused /\ EnvUnused /\ RecUnused /\ TickUnused /\ CmpUnused
    /\ dMode = "LIVE"
    /\ dFile = 0
    /\ dRecorder = 0
    /\ dChecked = FALSE
    /\ dEnabled = TRUE
    /\ dText = StartRecordingText
    /\ dLive = FALSE
    /\ dLoaded = FALSE
    /\ dTimer = TRUE
    /\ dStarted = 0

DashOthersUnchanged ==
    UNCHANGED <<filterVars, procVars, quadVars, estVars, trendVars, liveVars, statVars, envVars, recVars, tickVars, cmpVars>>

\* a click on btn_record: the checkable button toggles, then toggle_recording
\* runs; accepted = the filename dialog is confirmed with a name
ToggleRecording(accepted) ==
    /\ dEnabled
    /\ dChecked' = (~dChecked /\ accepted)
    /\ IF ~dChecked
       THEN IF accepted
            THEN /\ dStarted < MaxRecordings
                 /\ dStarted' = dStarted + 1
                 /\ dRecorder' = dStarted'
                 /\ dText' = RecordingText(dStarted')
            ELSE UNCHANGED <<dStarted, dRecorder, dText>>
       ELSE /\ dRecorder' = 0
            /\ dText' = StartRecordingText
            /\ UNCHANGED dStarted
    /\ UNCHANGED <<dMode, dFile, dEnabled, dLive, dLoaded, dTimer>>
    /\ DashOthersUnchanged

\* on_play_clicked: nothing without a file name, a warning when the file is
\* gone, else switch_to_playback; loads = load_tabs succeeds
OnPlayClicked(file, exists, loads) ==
    /\ IF file # 0 /\ exists
       THEN /\ dMode' = "PLAYBACK"
            /\ dFile' = file
            /\ dTimer' = FALSE
            /\ dRecorder' = 0
            /\ dEnabled' = FALSE
            /\ dText' = RecordingDisabledText
            /\ dLoaded' = (dLoaded \/ loads)
            /\ dLive' = TRUE
       ELSE UNCHANGED <<dMode, dFile, dTimer, dRecorder, dEnabled, dText, dLoaded, dLive>>
    /\ UNCHANGED <<dChecked, dStarted>>
    /\ DashOthersUnchanged

\* switch_to_live, the handler of btn_live, which is shown during playback
SwitchToLive ==
    /\ dLive
    /\ dMode' = "LIVE"
    /\ dLive' = FALSE
    /\ dEnabled' = TRUE
    /\ dText' = StartRecordingText
    /\ dTimer' = IF dLoaded THEN dTimer ELSE TRUE
    /\ UNCHANGED <<dFile, dRecorder, dChecked, dLoaded, dStarted>>
    /\ DashOthersUnchanged

\* check_stream, the handler of check_stream_timer
CheckStream(found, loads) ==
    /\ dTimer
    /\ IF ~dLoaded /\ found
       THEN /\ dTimer' = FALSE
            /\ dLoaded' = loads
       ELSE UNCHANGED <<dTimer, dLoaded>>
    /\ UNCHANGED <<dMode, dFile, dRecorder, dChecked, dEnabled, dText, dLive, dStarted>>
    /\ DashOthersUnchanged

NextDash ==
    \/ \E accepted \in BOOLEAN : ToggleRecording(accepted)
    \/ \E file \in 0..MaxPlayFiles, exists \in BOOLEAN, loads \in BOOLEAN :
          OnPlayClicked(file, exists, loads)
    \/ SwitchToLive
    \/ \E found \in BOOLEAN, loads \in BOOLEAN : CheckStream(found, loads)

SpecDash == InitDash /\ [][NextDash]_vars

\* C29: the record button is checked exactly when a recorder is held
C29_ButtonMatchesRecorder == dChecked <=> dRecorder # 0

\* ---------------------------------------------------------------------
\* compare_window.py: CompareWindow.load_and_process and run_comparison
\* ---------------------------------------------------------------------

\* number of analysis windows the longest recording yields
MaxCmpWindows == 2

\* lengths of the recordings: exactly one window long (no start fits), and
\* the shortest ones that yield 1 .. MaxCmpWindows windows
CmpLengths == {window_size} \cup {window_size + (k - 1) * step_size + 1 : k \in 1..MaxCmpWindows}

\* what the two file boxes can name: nothing, a file that is gone or that
\* read_csv fails on, or a recording of n rows
CmpFiles ==
    {[kind |-> k, n |-> 0, content |-> 0] : k \in {"noname", "missing"}}
        \cup {[kind |-> "csv", n |-> n, content |-> 1] : n \in CmpLengths}

\* how many channel boxes are checked: none, one or all
CmpChecked == {0, 1, 4}

NoResult == [ok |-> FALSE, timestamps |-> <<>>, band_series |-> <<>>]

\* the sliding-window loop of load_and_process over the given starts: one
\* timestamp and one power per band for every start
CmpWindows(file, cols, starts) ==
    LET powers == [k \in 1..Len(starts) |->
                      calculate_band_powers(window_size, cols, SF, FALSE,
                                            WindowPsd(file.content, starts[k]), "raise")]
    IN  IF \E k \in 1..Len(starts) : powers[k].raised
        THEN NoResult
        ELSE [ok          |-> TRUE,
              timestamps  |-> [k \in 1..Len(starts) |-> Timestamp(starts[k])],
              band_series |-> [b \in BAND_NAMES |->
                                  [k \in 1..Len(starts) |-> powers[k].powers[b]]]]

\* load_and_process(filename) with `cols` channel boxes checked: (None, None)
\* for a missing file, a failing read or no channel, else the timestamps and
\* the series per band
load_and_process(file, cols) ==
    IF file.kind # "csv" \/ cols = 0
    THEN NoResult
    ELSE CmpWindows(file, cols, Range(file.n - window_size, step_size))

\* load_and_process of every file under every choice of channel boxes
Processed == [file \in CmpFiles, cols \in CmpChecked |-> load_and_process(file, cols)]

Min(a, b) == IF a < b THEN a ELSE b

Truncate(band_series, min_len) ==
    [b \in BAND_NAMES |-> SubSeq(band_series[b], 1, min_len)]

InitCmp ==
    /\ FilterUnused /\ ProcUnused /\ QuadUnused /\ EstUnused /\ TrendUnused /\ LiveUnused /\ StatUnused /\ EnvUnused /\ RecUnused /\ TickUnused /\ DashUnused
    /\ cDataA = <<>>
    /\ cDataB = <<>>
    /\ cOutcome = "init"
    /\ cCall = <<>>
    /\ cStats = <<>>

\* the rest of run_comparison once both files are processed: crop both to the
\* shorter one, print the cropped duration t_a[-1], store the data, draw the
\* curves and refresh the statistics for the selected band
CompareLoaded(a, b) ==
    LET min_len == Min(Len(a.timestamps), Len(b.timestamps))
        t_a == SubSeq(a.timestamps, 1, min_len)
    IN  IF Len(t_a) = 0
        THEN /\ cOutcome' = "raised"
             /\ UNCHANGED <<cDataA, cDataB, cStats>>
        ELSE /\ cOutcome' = "stored"
             /\ cDataA' = Truncate(a.band_series, min_len)
             /\ cDataB' = Truncate(b.band_series, min_len)
             /\ cStats' = <<cDataA'[1], cDataB'[1]>>

\* run_comparison, the handler of the compare button, the statistics band box
\* showing its first entry
RunComparison(file_a, file_b, cols) ==
    /\ cCall' = <<file_a, file_b, cols>>
    /\ IF file_a.kind = "noname" \/ file_b.kind = "noname"
       THEN /\ cOutcome' = "returned"
            /\ UNCHANGED <<cDataA, cDataB, cStats>>
       ELSE IF ~Processed[file_a, cols].ok \/ ~Processed[file_b, cols].ok
       THEN /\ cOutcome' = "warning"
            /\ UNCHANGED <<cDataA, cDataB, cStats>>
       ELSE CompareLoaded(Processed[file_a, cols], Processed[file_b, cols])
    /\ UNCHANGED <<filterVars, procVars, quadVars, estVars, trendVars, liveVars, statVars, envVars, recVars, tickVars, dashVars>>

NextCmp ==
    \E file_a \in CmpFiles, file_b \in CmpFiles, cols \in CmpChecked :
        RunComparison(file_a, file_b, cols)

SpecCmp == InitCmp /\ [][NextCmp]_vars

\* the number of analysis windows a recording of n rows yields
WindowCount(n) == Len(Range(n - window_size, step_size))

TooShort(file) == file.kind = "csv" /\ WindowCount(file.n) = 0

\* C28: when one of the two recordings yields no analysis window,
\* run_comparison ends with a message to the operator and without raising; and
\* stored data always has both series of every band at the same length, the
\* smaller number of windows, at least 1
C28_ShortRecordingReported ==
    /\ (cCall # <<>> /\ cCall[1].kind = "csv" /\ cCall[2].kind = "csv" /\ cCall[3] > 0
            /\ (TooShort(cCall[1]) \/ TooShort(cCall[2]))) =>
           cOutcome = "warning"
    /\ cOutcome = "stored" =>
           \A b \in BAND_NAMES :
               /\ Len(cDataA[b]) = Len(cDataB[b])
               /\ Len(cDataA[b]) = Min(WindowCount(cCall[1].n), WindowCount(cCall[2].n))
               /\ Len(cDataA[b]) >= 1

====
